---- MODULE Spec2Model ----
(***************************************************************************)
(* Content gating service (src/backend/services/content-gating.js) over    *)
(* the relational schema and SQL functions of the platform database.       *)
(*                                                                         *)
(* Tables are sets of rows.  A nullable column, and a "rows[0] || null"    *)
(* result, is a sequence of length 0 (NULL) or 1.  Timestamps are integer  *)
(* seconds.  A DECIMAL(5,2) value is an integer number of hundredths.      *)
(***************************************************************************)
EXTENDS Integers, Sequences, FiniteSets, TLC

VARIABLES users, subscriptions, courses, modules, lessons, user_progress,
          enrollments, now, cache, proc, calls, writes, down

store == <<users, subscriptions, courses, modules, lessons, user_progress>>
vars == <<users, subscriptions, courses, modules, lessons, user_progress,
          enrollments, now, cache, proc, calls, writes, down>>

(***************************************************************************)
(* Bounds of the model.                                                    *)
(***************************************************************************)
MaxEvalCalls == 2

Null == <<>>
Some(v) == <<v>>
IsNull(o) == o = <<>>
Val(o) == o[1]

Levels == {"beginner", "intermediate", "advanced"}
ContentTypes == {"course", "module", "lesson"}
SubscriptionStatuses == {"active", "cancelled", "expired", "trial"}

\* The clock value of the initial state; dates are drawn around it.
StartTime == 1000
Past == StartTime - 1
Future == StartTime + 86400 * 2

LevelThreshold == 80
AccessTTL == 300
AccessibleTTL == 600

(***************************************************************************)
(* createAccessResult and the bare pass value of the sub-checks.           *)
(***************************************************************************)
EmptyMetadata == [k \in {} |-> k]

createAccessResult(hasAccess, code, message, metadata, t) ==
    [hasAccess |-> hasAccess, code |-> code, message |-> message,
     metadata |-> metadata, timestamp |-> t]

PassResult == [hasAccess |-> TRUE]

(***************************************************************************)
(* getUserWithSubscription: users LEFT JOIN subscriptions, active users    *)
(* only.  The query has no ORDER BY, so rows[0] is any row of the join.    *)
(***************************************************************************)
\* mutant: the query does not filter on is_active
UserJoinRows_AnyStatus(userId) ==
    LET us == {u \in users : u.id = userId}
        joined(u) ==
            LET ss == {s \in subscriptions : s.user_id = u.id}
            IN IF ss = {}
               THEN {[id |-> u.id, is_active |-> u.is_active,
                      is_verified |-> u.is_verified,
                      plan |-> Null, subscription_status |-> Null,
                      current_period_end |-> Null, trial_end |-> Null]}
               ELSE {[id |-> u.id, is_active |-> u.is_active,
                      is_verified |-> u.is_verified,
                      plan |-> Some(s.plan),
                      subscription_status |-> Some(s.status),
                      current_period_end |-> s.current_period_end,
                      trial_end |-> s.trial_end] : s \in ss}
    IN UNION {joined(u) : u \in us}

UserJoinRows(userId) ==
    LET us == {u \in users : u.id = userId /\ u.is_active}
        joined(u) ==
            LET ss == {s \in subscriptions : s.user_id = u.id}
            IN IF ss = {}
               THEN {[id |-> u.id, is_active |-> u.is_active,
                      is_verified |-> u.is_verified,
                      plan |-> Null, subscription_status |-> Null,
                      current_period_end |-> Null, trial_end |-> Null]}
               ELSE {[id |-> u.id, is_active |-> u.is_active,
                      is_verified |-> u.is_verified,
                      plan |-> Some(s.plan),
                      subscription_status |-> Some(s.status),
                      current_period_end |-> s.current_period_end,
                      trial_end |-> s.trial_end] : s \in ss}
    IN UNION {joined(u) : u \in us}

getUserWithSubscription(userId) ==
    IF UserJoinRows(userId) = {} THEN {Null}
    ELSE {Some(r) : r \in UserJoinRows(userId)}

(***************************************************************************)
(* getContentDetails: one query per content type; the lesson query selects *)
(* no prerequisites column.  An unknown content type yields null.          *)
(***************************************************************************)
\* mutant: a content type outside course, module, lesson is looked up as a
\* course
getContentDetails_CourseByDefault(contentId, contentType) ==
    CASE contentType = "course" ->
           {Some([id |-> c.id, level |-> c.level,
                  is_published |-> c.is_published, is_free |-> c.is_free,
                  requires_subscription |-> c.requires_subscription,
                  prerequisites |-> Some(c.prerequisites)])
              : c \in {c \in courses : c.id = contentId}}
      [] contentType = "module" ->
           {Some([id |-> mc[1].id, level |-> mc[2].level,
                  is_published |-> mc[2].is_published,
                  is_free |-> mc[2].is_free,
                  requires_subscription |-> mc[2].requires_subscription,
                  prerequisites |-> Some(mc[1].prerequisites),
                  course_id |-> mc[2].id])
              : mc \in {mc \in modules \X courses :
                          mc[1].id = contentId /\ mc[1].course_id = mc[2].id}}
      [] contentType = "lesson" ->
           {Some([id |-> lmc[1].id, level |-> lmc[3].level,
                  is_published |-> lmc[3].is_published,
                  is_free |-> lmc[3].is_free,
                  requires_subscription |-> lmc[3].requires_subscription,
                  prerequisites |-> Null,
                  course_id |-> lmc[3].id, module_id |-> lmc[2].id])
              : lmc \in {lmc \in lessons \X modules \X courses :
                           /\ lmc[1].id = contentId
                           /\ lmc[1].module_id = lmc[2].id
                           /\ lmc[2].course_id = lmc[3].id}}
      [] OTHER ->
           {Some([id |-> c.id, level |-> c.level,
                  is_published |-> c.is_published, is_free |-> c.is_free,
                  requires_subscription |-> c.requires_subscription,
                  prerequisites |-> Some(c.prerequisites)])
              : c \in {c \in courses : c.id = contentId}}

getContentDetails(contentId, contentType) ==
    CASE contentType = "course" ->
           {Some([id |-> c.id, level |-> c.level,
                  is_published |-> c.is_published, is_free |-> c.is_free,
                  requires_subscription |-> c.requires_subscription,
                  prerequisites |-> Some(c.prerequisites)])
              : c \in {c \in courses : c.id = contentId}}
      [] contentType = "module" ->
           {Some([id |-> mc[1].id, level |-> mc[2].level,
                  is_published |-> mc[2].is_published,
                  is_free |-> mc[2].is_free,
                  requires_subscription |-> mc[2].requires_subscription,
                  prerequisites |-> Some(mc[1].prerequisites),
                  course_id |-> mc[2].id])
              : mc \in {mc \in modules \X courses :
                          mc[1].id = contentId /\ mc[1].course_id = mc[2].id}}
      [] contentType = "lesson" ->
           {Some([id |-> lmc[1].id, level |-> lmc[3].level,
                  is_published |-> lmc[3].is_published,
                  is_free |-> lmc[3].is_free,
                  requires_subscription |-> lmc[3].requires_subscription,
                  prerequisites |-> Null,
                  course_id |-> lmc[3].id, module_id |-> lmc[2].id])
              : lmc \in {lmc \in lessons \X modules \X courses :
                           /\ lmc[1].id = contentId
                           /\ lmc[1].module_id = lmc[2].id
                           /\ lmc[2].course_id = lmc[3].id}}
      [] OTHER -> {}

ContentRows(contentId, contentType) ==
    IF getContentDetails(contentId, contentType) = {} THEN {Null}
    ELSE getContentDetails(contentId, contentType)

(***************************************************************************)
(* calculate_course_completion (SQL): completed lesson rows of the user    *)
(* in the course over lessons of the course, times 100, as DECIMAL(5,2).   *)
(***************************************************************************)
LessonsOfCourse(courseId) ==
    {l \in lessons : \E m \in modules : m.id = l.module_id /\ m.course_id = courseId}

\* numeric division rounded to two decimals, half away from zero
RoundDiv(a, b) == (2 * a + b) \div (2 * b)

\* mutant: the completed records of every user are counted
calculate_course_completion_AnyUser(userId, courseId) ==
    LET total_lessons == Cardinality(LessonsOfCourse(courseId))
        completed_lessons ==
            Cardinality({up \in user_progress :
                           /\ up.status = "completed"
                           /\ \E l \in LessonsOfCourse(courseId) :
                                  up.lesson_id = Some(l.id)})
    IN IF total_lessons > 0
       THEN RoundDiv(completed_lessons * 100 * 100, total_lessons)
       ELSE 0

\* mutant: the lessons in progress are counted, not the completed ones
calculate_course_completion_InProgress(userId, courseId) ==
    LET total_lessons == Cardinality(LessonsOfCourse(courseId))
        completed_lessons ==
            Cardinality({up \in user_progress :
                           /\ up.user_id = userId
                           /\ up.status = "in_progress"
                           /\ \E l \in LessonsOfCourse(courseId) :
                                  up.lesson_id = Some(l.id)})
    IN IF total_lessons > 0
       THEN RoundDiv(completed_lessons * 100 * 100, total_lessons)
       ELSE 0

calculate_course_completion(userId, courseId) ==
    LET total_lessons == Cardinality(LessonsOfCourse(courseId))
        completed_lessons ==
            Cardinality({up \in user_progress :
                           /\ up.user_id = userId
                           /\ up.status = "completed"
                           /\ \E l \in LessonsOfCourse(courseId) :
                                  up.lesson_id = Some(l.id)})
    IN IF total_lessons > 0
       THEN RoundDiv(completed_lessons * 100 * 100, total_lessons)
       ELSE 0

(***************************************************************************)
(* getLevelCompletion: Math.round(AVG(...) || 0) over the published        *)
(* courses of the level.  Math.round(x) is floor(x + 1/2).                 *)
(***************************************************************************)
RECURSIVE SumCompletion(_, _)
SumCompletion(userId, cs) ==
    IF cs = {} THEN 0
    ELSE LET c == CHOOSE c \in cs : TRUE
         IN calculate_course_completion(userId, c.id)
              + SumCompletion(userId, cs \ {c})

PublishedAtLevel(level) ==
    {c \in courses : c.level = level /\ c.is_published}

MathRound(num, den) == (2 * num + den) \div (2 * den)

\* mutant: a level without published courses counts as completed
getLevelCompletion_EmptyLevelComplete(userId, level) ==
    LET cs == PublishedAtLevel(level)
    IN IF cs = {} THEN 100
       ELSE MathRound(SumCompletion(userId, cs), 100 * Cardinality(cs))

getLevelCompletion(userId, level) ==
    LET cs == PublishedAtLevel(level)
    IN IF cs = {} THEN 0
       ELSE MathRound(SumCompletion(userId, cs), 100 * Cardinality(cs))

(***************************************************************************)
(* The individual checks of performAccessChecks.                           *)
(***************************************************************************)
\* mutant: free content is not exempted from the subscription requirement
checkSubscriptionAccess_NoFreeExemption(user, content, t) ==
    IF content.requires_subscription
    THEN IF IsNull(user.subscription_status)
             \/ Val(user.subscription_status) # "active"
         THEN IF ~IsNull(user.trial_end) /\ Val(user.trial_end) > t
              THEN PassResult
              ELSE createAccessResult(FALSE, "SUBSCRIPTION_REQUIRED",
                       "Active subscription required", EmptyMetadata, t)
         ELSE IF ~IsNull(user.current_period_end)
                  /\ Val(user.current_period_end) < t
              THEN createAccessResult(FALSE, "SUBSCRIPTION_EXPIRED",
                       "Subscription has expired", EmptyMetadata, t)
              ELSE PassResult
    ELSE PassResult

\* mutant: an elapsed period of an active subscription is reported with the
\* code of a missing subscription
checkSubscriptionAccess_ExpiredAsRequired(user, content, t) ==
    IF content.is_free THEN PassResult
    ELSE IF content.requires_subscription
         THEN IF IsNull(user.subscription_status)
                  \/ Val(user.subscription_status) # "active"
              THEN IF ~IsNull(user.trial_end) /\ Val(user.trial_end) > t
                   THEN PassResult
                   ELSE createAccessResult(FALSE, "SUBSCRIPTION_REQUIRED",
                            "Active subscription required", EmptyMetadata, t)
              ELSE IF ~IsNull(user.current_period_end)
                       /\ Val(user.current_period_end) < t
                   THEN createAccessResult(FALSE, "SUBSCRIPTION_REQUIRED",
                            "Active subscription required", EmptyMetadata, t)
                   ELSE PassResult
         ELSE PassResult

\* mutant: content that is not free is treated as requiring a subscription
checkSubscriptionAccess_PaidUnlessFree(user, content, t) ==
    IF content.is_free THEN PassResult
    ELSE IF IsNull(user.subscription_status)
             \/ Val(user.subscription_status) # "active"
         THEN IF ~IsNull(user.trial_end) /\ Val(user.trial_end) > t
              THEN PassResult
              ELSE createAccessResult(FALSE, "SUBSCRIPTION_REQUIRED",
                       "Active subscription required", EmptyMetadata, t)
         ELSE IF ~IsNull(user.current_period_end)
                  /\ Val(user.current_period_end) < t
              THEN createAccessResult(FALSE, "SUBSCRIPTION_EXPIRED",
                       "Subscription has expired", EmptyMetadata, t)
              ELSE PassResult

checkSubscriptionAccess(user, content, t) ==
    IF content.is_free THEN PassResult
    ELSE IF content.requires_subscription
         THEN IF IsNull(user.subscription_status)
                  \/ Val(user.subscription_status) # "active"
              THEN IF ~IsNull(user.trial_end) /\ Val(user.trial_end) > t
                   THEN PassResult
                   ELSE createAccessResult(FALSE, "SUBSCRIPTION_REQUIRED",
                            "Active subscription required", EmptyMetadata, t)
              ELSE IF ~IsNull(user.current_period_end)
                       /\ Val(user.current_period_end) < t
                   THEN createAccessResult(FALSE, "SUBSCRIPTION_EXPIRED",
                            "Subscription has expired", EmptyMetadata, t)
                   ELSE PassResult
         ELSE PassResult

LevelDenied(levelName, completion, t) ==
    createAccessResult(FALSE, "PREREQUISITE_LEVEL_NOT_COMPLETED",
        <<levelName, " level must be 80% complete. Current: ", completion, "%">>,
        [requiredCompletion |-> LevelThreshold, currentCompletion |-> completion],
        t)

checkLevelAccess(userId, content, t) ==
    CASE content.level = "beginner" -> PassResult
      [] content.level = "intermediate" ->
           LET beginnerCompletion == getLevelCompletion(userId, "beginner")
           IN IF beginnerCompletion < LevelThreshold
              THEN LevelDenied("Beginner", beginnerCompletion, t)
              ELSE PassResult
      [] content.level = "advanced" ->
           LET intermediateCompletion == getLevelCompletion(userId, "intermediate")
           IN IF intermediateCompletion < LevelThreshold
              THEN LevelDenied("Intermediate", intermediateCompletion, t)
              ELSE PassResult
      [] OTHER -> PassResult

\* LEFT JOIN user_progress ... AND up.status = 'completed': a prerequisite
\* is completed when some completed row of the user carries its id in the
\* joined column (course_id for a course request, module_id otherwise).
PrerequisiteCompleted(userId, prerequisite_id, contentType) ==
    \E up \in user_progress :
        /\ up.user_id = userId
        /\ up.status = "completed"
        /\ IF contentType = "course"
           THEN up.course_id = prerequisite_id
           ELSE up.module_id = Some(prerequisite_id)

\* mutant: the lookup stops at the first prerequisite that is not completed
checkPrerequisites_FirstIncompleteOnly(userId, content, contentType, t) ==
    IF IsNull(content.prerequisites) \/ Len(Val(content.prerequisites)) = 0
    THEN PassResult
    ELSE LET prerequisiteIds == Val(content.prerequisites)
             isIncomplete(pid) == ~PrerequisiteCompleted(userId, pid, contentType)
             incompletePrereqs == SelectSeq(prerequisiteIds, isIncomplete)
         IN IF Len(incompletePrereqs) > 0
            THEN createAccessResult(FALSE, "PREREQUISITES_NOT_MET",
                     <<1, " prerequisite(s) not completed">>,
                     [incompletePrerequisites |-> <<Head(incompletePrereqs)>>], t)
            ELSE PassResult

checkPrerequisites(userId, content, contentType, t) ==
    IF IsNull(content.prerequisites) \/ Len(Val(content.prerequisites)) = 0
    THEN PassResult
    ELSE LET prerequisiteIds == Val(content.prerequisites)
             isIncomplete(pid) == ~PrerequisiteCompleted(userId, pid, contentType)
             incompletePrereqs == SelectSeq(prerequisiteIds, isIncomplete)
         IN IF Len(incompletePrereqs) > 0
            THEN createAccessResult(FALSE, "PREREQUISITES_NOT_MET",
                     <<Len(incompletePrereqs), " prerequisite(s) not completed">>,
                     [incompletePrerequisites |-> incompletePrereqs], t)
            ELSE PassResult

\* mutant: the expiry date is examined before the is_active flag
checkEnrollment_ExpiryFirst(userId, courseId, t) ==
    LET rows == {e \in enrollments : e.user_id = userId /\ e.course_id = courseId}
    IN IF rows = {}
       THEN createAccessResult(FALSE, "NOT_ENROLLED",
                "User not enrolled in course", EmptyMetadata, t)
       ELSE LET enrollment == CHOOSE e \in rows : TRUE
            IN IF ~IsNull(enrollment.expires_at)
                    /\ Val(enrollment.expires_at) < t
               THEN createAccessResult(FALSE, "ENROLLMENT_EXPIRED",
                        "Enrollment has expired", EmptyMetadata, t)
               ELSE IF ~enrollment.is_active
                    THEN createAccessResult(FALSE, "ENROLLMENT_INACTIVE",
                             "Enrollment is inactive", EmptyMetadata, t)
                    ELSE PassResult

checkEnrollment(userId, courseId, t) ==
    LET rows == {e \in enrollments : e.user_id = userId /\ e.course_id = courseId}
    IN IF rows = {}
       THEN createAccessResult(FALSE, "NOT_ENROLLED",
                "User not enrolled in course", EmptyMetadata, t)
       ELSE LET enrollment == CHOOSE e \in rows : TRUE
            IN IF ~enrollment.is_active
               THEN createAccessResult(FALSE, "ENROLLMENT_INACTIVE",
                        "Enrollment is inactive", EmptyMetadata, t)
               ELSE IF ~IsNull(enrollment.expires_at)
                        /\ Val(enrollment.expires_at) < t
                    THEN createAccessResult(FALSE, "ENROLLMENT_EXPIRED",
                             "Enrollment has expired", EmptyMetadata, t)
                    ELSE PassResult

(***************************************************************************)
(* performAccessChecks: the checks in program order; each is awaited, and  *)
(* the first one without access is returned.                               *)
(***************************************************************************)
\* mutant: the prerequisite query is made before the level gate
CheckOrder_PrerequisitesFirst ==
    <<"published", "verified", "subscription", "prerequisites", "level",
      "enrollment">>

CheckOrder ==
    <<"published", "verified", "subscription", "level", "prerequisites",
      "enrollment">>

RunCheck(name, user, content, contentType, t) ==
    CASE name = "published" ->
           IF ~content.is_published
           THEN createAccessResult(FALSE, "CONTENT_NOT_PUBLISHED",
                    "Content is not published", EmptyMetadata, t)
           ELSE PassResult
      [] name = "verified" ->
           IF ~user.is_verified
           THEN createAccessResult(FALSE, "USER_NOT_VERIFIED",
                    "Email verification required", EmptyMetadata, t)
           ELSE PassResult
      [] name = "subscription" -> checkSubscriptionAccess(user, content, t)
      [] name = "level" -> checkLevelAccess(user.id, content, t)
      [] name = "prerequisites" ->
           checkPrerequisites(user.id, content, contentType, t)
      [] name = "enrollment" ->
           IF contentType = "course"
           THEN checkEnrollment(user.id, content.id, t)
           ELSE PassResult

(***************************************************************************)
(* The redis cache: entries [key, value, expires, stored]; an entry is      *)
(* readable until its expiry time.  Values are JSON texts: the field names *)
(* in insertion order and the field values.                                *)
(***************************************************************************)
FieldOrder == <<"hasAccess", "code", "message", "metadata", "timestamp">>

\* mutant: the metadata of a decision is not written to the JSON text
JSONStringify_NoMetadata(v) ==
    LET hasField(k) == k \in DOMAIN v /\ k # "metadata"
        keys == SelectSeq(FieldOrder, hasField)
    IN [keys |-> keys, vals |-> [i \in 1..Len(keys) |-> v[keys[i]]]]

JSONStringify(v) ==
    LET hasField(k) == k \in DOMAIN v
        keys == SelectSeq(FieldOrder, hasField)
    IN [keys |-> keys, vals |-> [i \in 1..Len(keys) |-> v[keys[i]]]]

JSONParse(text) ==
    [k \in {text.keys[i] : i \in 1..Len(text.keys)} |->
        text.vals[CHOOSE i \in 1..Len(text.keys) : text.keys[i] = k]]

AccessKey(userId, contentId, contentType) ==
    <<"content_access", userId, contentId, contentType>>

RedisGet(key) ==
    LET live == {e \in cache : e.key = key /\ e.expires > now}
    IN IF live = {} THEN Null ELSE Some((CHOOSE e \in live : TRUE).value)

\* mutant: the value is written with SET, without an expiry
RedisSetex_NoExpiry(key, ttl, value) ==
    {e \in cache : e.key # key /\ e.expires > now}
        \cup {[key |-> key, value |-> value, expires |-> Future + ttl,
               stored |-> now, basis |-> <<>>]}

\* `stored` records when the entry was written and `basis`, for a list, the
\* timestamps of the decisions it was built from (observations; the server
\* keeps only the expiry)
RedisSetex(key, ttl, value) ==
    {e \in cache : e.key # key /\ e.expires > now}
        \cup {[key |-> key, value |-> value, expires |-> now + ttl,
               stored |-> now, basis |-> <<>>]}

\* mutant: the pattern is prefix:* and matches the keys of every user
RedisKeys_AnyUser(prefix, userId) ==
    {e.key : e \in {e \in cache : /\ e.expires > now
                                   /\ e.key[1] = prefix}}

\* redis.keys(prefix:userId:*)
RedisKeys(prefix, userId) ==
    {e.key : e \in {e \in cache : /\ e.expires > now
                                   /\ e.key[1] = prefix
                                   /\ e.key[2] = userId}}

\* mutant: only one of the listed keys is deleted
RedisDel_FirstKeyOnly(keys) ==
    {e \in cache : e.key # (CHOOSE k \in keys : TRUE) /\ e.expires > now}

RedisDel(keys) == {e \in cache : e.key \notin keys /\ e.expires > now}

\* accessible_content:${userId}:${level}
AccessibleKey(userId, level) == <<"accessible_content", userId, level>>

\* the JSON text of the list of lines 436-446
ListFieldOrder == <<"id", "requiresSubscription", "isFree">>

JSONStringifyList(list) ==
    [items |-> [i \in 1..Len(list) |->
                  [keys |-> ListFieldOrder,
                   vals |-> [j \in 1..Len(ListFieldOrder) |->
                               list[i][ListFieldOrder[j]]]]]]

JSONParseList(text) == [i \in 1..Len(text.items) |-> JSONParse(text.items[i])]

\* mutant: ORDER BY created_at DESC
RECURSIVE OrderByCreatedAt_Descending(_)
OrderByCreatedAt_Descending(rows) ==
    IF rows = {} THEN <<>>
    ELSE LET first == CHOOSE c \in rows : \A d \in rows : c.id[2] >= d.id[2]
         IN <<first>> \o OrderByCreatedAt_Descending(rows \ {first})

\* lines 425-433: the published courses of the level, ORDER BY created_at;
\* courses are created in the order of their numbers
RECURSIVE OrderByCreatedAt(_)
OrderByCreatedAt(rows) ==
    IF rows = {} THEN <<>>
    ELSE LET first == CHOOSE c \in rows : \A d \in rows : c.id[2] <= d.id[2]
         IN <<first>> \o OrderByCreatedAt(rows \ {first})

PublishedCourses(level) ==
    OrderByCreatedAt({[id |-> c.id,
                       requires_subscription |-> c.requires_subscription,
                       is_free |-> c.is_free]
                        : c \in {c \in courses : c.level = level /\ c.is_published}})

(***************************************************************************)
(* Callers.  proc[p] holds the position and the locals of the call that    *)
(* process p is executing; every await of the source is a step boundary.   *)
(* inFlightAtCall and writesAtCall record which other calls were running   *)
(* and how many outside writes had been committed when the call began, and *)
(* decidedAt the timestamps of the decisions that put a course into the    *)
(* list under construction, and buildFaulted whether one of the decisions  *)
(* of the construction was the SYSTEM_ERROR of the catch (observations,    *)
(* not read by the service).                                               *)
(*                                                                         *)
(* down is the set of unreachable backing services: a command sent to a    *)
(* service in down rejects, and the await throws.                          *)
(***************************************************************************)
Procs == {1, 2}

InFlight == {q \in Procs : proc[q].pc \notin {"idle", "done"}}

IdleProc ==
    [pc |-> "idle", op |-> "none", callNo |-> 0,
     userId |-> Null, contentId |-> Null, contentType |-> "",
     cached |-> Null, user |-> Null, content |-> Null, step |-> 0,
     accessResult |-> Null, keys |-> {}, accessibleKeys |-> {},
     level |-> "", courseList |-> <<>>, accessibleCourses |-> <<>>,
     decidedAt |-> <<>>, buildFaulted |-> FALSE,
     ret |-> Null, rejected |-> FALSE, inFlightAtCall |-> {}, writesAtCall |-> 0]

\* the outcome of a call that rejected (the field `rejected` of the caller
\* is then set), and of one that resolved to undefined
Thrown == [threw |-> TRUE]
Undefined == [undefined |-> TRUE]

\* mutant: the catch fails open
SystemError_FailOpen(t) ==
    createAccessResult(TRUE, "SYSTEM_ERROR", "System error occurred",
                       EmptyMetadata, t)

\* lines 62-65
SystemError(t) ==
    createAccessResult(FALSE, "SYSTEM_ERROR", "System error occurred",
                       EmptyMetadata, t)

NewCall(p, op) ==
    [IdleProc EXCEPT !.op = op, !.callNo = calls + 1,
                     !.inFlightAtCall = InFlight, !.writesAtCall = writes]

\* lines 439-446: the element pushed for an accessible course
AccessibleEntry(course) ==
    [id |-> course.id, requiresSubscription |-> course.requires_subscription,
     isFree |-> course.is_free]

\* mutant: enrollUser reports every denial with one generic code
ReturnFromCheck_GenericDenial(pr, value) ==
    CASE pr.op = "checkContentAccess" ->
           [pr EXCEPT !.pc = "done", !.ret = Some(value)]
      [] pr.op = "enrollUser" ->
           IF ~value.hasAccess
           THEN [pr EXCEPT !.pc = "done",
                           !.ret = Some([success |-> FALSE,
                                         message |-> value.message,
                                         code |-> "ACCESS_DENIED"])]
           ELSE [pr EXCEPT !.pc = "enrollExisting"]
      [] pr.op = "getAccessibleContent" ->
           LET accessibleCourses ==
                   IF value.hasAccess
                   THEN Append(pr.accessibleCourses,
                               AccessibleEntry(Head(pr.courseList)))
                   ELSE pr.accessibleCourses
               rest == Tail(pr.courseList)
               decidedAt == IF value.hasAccess
                            THEN Append(pr.decidedAt, value.timestamp)
                            ELSE pr.decidedAt
               buildFaulted == pr.buildFaulted \/ value.code = "SYSTEM_ERROR"
               back == [pr EXCEPT !.accessibleCourses = accessibleCourses,
                                  !.decidedAt = decidedAt,
                                  !.buildFaulted = buildFaulted,
                                  !.courseList = rest,
                                  !.cached = Null, !.user = Null,
                                  !.content = Null, !.step = 0,
                                  !.accessResult = Null]
           IN IF Len(rest) > 0
              THEN [back EXCEPT !.pc = "cacheGet", !.contentId = Head(rest).id]
              ELSE [back EXCEPT !.pc = "accessibleSetex", !.contentId = Null,
                                !.contentType = ""]

\* the state of a caller once checkContentAccess has returned `value`:
\* a plain call is over; enrollUser goes on (lines 503-510);
\* getAccessibleContent goes on with its loop (lines 437-447)
ReturnFromCheck(pr, value) ==
    CASE pr.op = "checkContentAccess" ->
           [pr EXCEPT !.pc = "done", !.ret = Some(value)]
      [] pr.op = "enrollUser" ->
           IF ~value.hasAccess
           THEN [pr EXCEPT !.pc = "done",
                           !.ret = Some([success |-> FALSE,
                                         message |-> value.message,
                                         code |-> value.code])]
           ELSE [pr EXCEPT !.pc = "enrollExisting"]
      [] pr.op = "getAccessibleContent" ->
           LET accessibleCourses ==
                   IF value.hasAccess
                   THEN Append(pr.accessibleCourses,
                               AccessibleEntry(Head(pr.courseList)))
                   ELSE pr.accessibleCourses
               rest == Tail(pr.courseList)
               decidedAt == IF value.hasAccess
                            THEN Append(pr.decidedAt, value.timestamp)
                            ELSE pr.decidedAt
               buildFaulted == pr.buildFaulted \/ value.code = "SYSTEM_ERROR"
               back == [pr EXCEPT !.accessibleCourses = accessibleCourses,
                                  !.decidedAt = decidedAt,
                                  !.buildFaulted = buildFaulted,
                                  !.courseList = rest,
                                  !.cached = Null, !.user = Null,
                                  !.content = Null, !.step = 0,
                                  !.accessResult = Null]
           IN IF Len(rest) > 0
              THEN [back EXCEPT !.pc = "cacheGet", !.contentId = Head(rest).id]
              ELSE [back EXCEPT !.pc = "accessibleSetex", !.contentId = Null,
                                !.contentType = ""]

CallCheckContentAccess(p, userId, contentId, contentType) ==
    /\ proc[p].pc \in {"idle", "done"}
    /\ calls' = calls + 1
    /\ proc' = [proc EXCEPT ![p] =
                  [NewCall(p, "checkContentAccess")
                      EXCEPT !.pc = "cacheGet",
                             !.userId = userId,
                             !.contentId = contentId,
                             !.contentType = contentType]]
    /\ UNCHANGED <<store, enrollments, now, cache, writes, down>>

\* lines 35-41, and the catch of lines 62-65 when the command rejects
CacheGet(p) ==
    /\ proc[p].pc = "cacheGet"
    /\ IF "redis" \in down
       THEN proc' = [proc EXCEPT ![p] = ReturnFromCheck(@, SystemError(now))]
       ELSE LET cacheKey == AccessKey(proc[p].userId, proc[p].contentId,
                                      proc[p].contentType)
                cached == RedisGet(cacheKey)
            IN proc' = [proc EXCEPT ![p] =
                          IF ~IsNull(cached)
                          THEN ReturnFromCheck([@ EXCEPT !.cached = cached],
                                               JSONParse(Val(cached)))
                          ELSE [@ EXCEPT !.pc = "getUser"]]
    /\ UNCHANGED <<store, enrollments, now, cache, calls, writes, down>>

\* lines 43-47, and the catch of lines 62-65 when the query rejects
GetUser(p) ==
    /\ proc[p].pc = "getUser"
    /\ IF "db" \in down
       THEN proc' = [proc EXCEPT ![p] = ReturnFromCheck(@, SystemError(now))]
       ELSE \E user \in getUserWithSubscription(proc[p].userId) :
              proc' = [proc EXCEPT ![p] =
                         IF IsNull(user)
                         THEN ReturnFromCheck(@,
                                createAccessResult(FALSE, "USER_NOT_FOUND",
                                    "User not found", EmptyMetadata, now))
                         ELSE [@ EXCEPT !.pc = "getContent", !.user = user]]
    /\ UNCHANGED <<store, enrollments, now, cache, calls, writes, down>>

\* mutant: the CONTENT_NOT_FOUND result is written to the cache like a
\* decision of the checks
GetContent_CachesNotFound(p) ==
    /\ proc[p].pc = "getContent"
    /\ IF "db" \in down /\ proc[p].contentType \in ContentTypes
       THEN proc' = [proc EXCEPT ![p] = ReturnFromCheck(@, SystemError(now))]
       ELSE \E content \in ContentRows(proc[p].contentId, proc[p].contentType) :
              proc' = [proc EXCEPT ![p] =
                         IF IsNull(content)
                         THEN [@ EXCEPT !.pc = "setex",
                                        !.accessResult =
                                           Some(createAccessResult(FALSE,
                                                "CONTENT_NOT_FOUND",
                                                "Content not found",
                                                EmptyMetadata, now))]
                         ELSE [@ EXCEPT !.pc = "checks", !.content = content,
                                        !.step = 1]]
    /\ UNCHANGED <<store, enrollments, now, cache, calls, writes, down>>

\* lines 49-56, and the catch of lines 62-65 when the query rejects; for a
\* type that is not course, module or lesson no query is sent (lines 158-159)
GetContent(p) ==
    /\ proc[p].pc = "getContent"
    /\ IF "db" \in down /\ proc[p].contentType \in ContentTypes
       THEN proc' = [proc EXCEPT ![p] = ReturnFromCheck(@, SystemError(now))]
       ELSE \E content \in ContentRows(proc[p].contentId, proc[p].contentType) :
              proc' = [proc EXCEPT ![p] =
                         IF IsNull(content)
                         THEN ReturnFromCheck(@,
                                createAccessResult(FALSE, "CONTENT_NOT_FOUND",
                                    "Content not found", EmptyMetadata, now))
                         ELSE [@ EXCEPT !.pc = "checks", !.content = content,
                                        !.step = 1]]
    /\ UNCHANGED <<store, enrollments, now, cache, calls, writes, down>>

\* the checks that send a query to the database: the level gate above
\* beginner (lines 262, 275), the prerequisite lookup of a non-empty list
\* (line 360) and the enrollment lookup of a course (line 388)
CheckQueriesStore(name, content, contentType) ==
    CASE name = "level" -> content.level \in {"intermediate", "advanced"}
      [] name = "prerequisites" ->
           ~IsNull(content.prerequisites) /\ Len(Val(content.prerequisites)) > 0
      [] name = "enrollment" -> contentType = "course"
      [] OTHER -> FALSE

\* lines 173-212: one awaited check per step; a rejected query leaves
\* performAccessChecks and is caught at lines 62-65
PerformAccessChecks(p) ==
    /\ proc[p].pc = "checks"
    /\ IF /\ "db" \in down
          /\ CheckQueriesStore(CheckOrder[proc[p].step], Val(proc[p].content),
                               proc[p].contentType)
       THEN proc' = [proc EXCEPT ![p] = ReturnFromCheck(@, SystemError(now))]
       ELSE
       LET check == RunCheck(CheckOrder[proc[p].step], Val(proc[p].user),
                             Val(proc[p].content), proc[p].contentType, now)
       IN proc' = [proc EXCEPT ![p] =
                     IF ~check.hasAccess
                     THEN [@ EXCEPT !.pc = "setex", !.accessResult = Some(check)]
                     ELSE IF proc[p].step < Len(CheckOrder)
                          THEN [@ EXCEPT !.step = @ + 1]
                          ELSE [@ EXCEPT !.pc = "setex",
                                         !.accessResult =
                                            Some(createAccessResult(TRUE,
                                                 "ACCESS_GRANTED",
                                                 "Access granted",
                                                 EmptyMetadata, now))]]
    /\ UNCHANGED <<store, enrollments, now, cache, calls, writes, down>>

\* lines 58-61, and the catch of lines 62-65 when the command rejects
CacheSetex(p) ==
    /\ proc[p].pc = "setex"
    /\ IF "redis" \in down
       THEN /\ proc' = [proc EXCEPT ![p] =
                          ReturnFromCheck(@, SystemError(now))]
            /\ UNCHANGED cache
       ELSE /\ cache' = RedisSetex(AccessKey(proc[p].userId, proc[p].contentId,
                                             proc[p].contentType),
                                   AccessTTL,
                                   JSONStringify(Val(proc[p].accessResult)))
            /\ proc' = [proc EXCEPT ![p] =
                          ReturnFromCheck(@, Val(proc[p].accessResult))]
    /\ UNCHANGED <<store, enrollments, now, calls, writes, down>>

(***************************************************************************)
(* getAccessibleContent (lines 415-453).  It has no try/catch: a rejected  *)
(* cache command makes the call itself reject.                             *)
(***************************************************************************)
CallGetAccessibleContent(p, userId, level) ==
    /\ proc[p].pc \in {"idle", "done"}
    /\ calls' = calls + 1
    /\ proc' = [proc EXCEPT ![p] =
                  [NewCall(p, "getAccessibleContent")
                      EXCEPT !.pc = "accessibleGet",
                             !.userId = userId, !.level = level]]
    /\ UNCHANGED <<store, enrollments, now, cache, writes, down>>

\* lines 416-422
AccessibleGet(p) ==
    /\ proc[p].pc = "accessibleGet"
    /\ IF "redis" \in down
       THEN proc' = [proc EXCEPT ![p] =
                       [@ EXCEPT !.pc = "done", !.ret = Some(Thrown),
                                 !.rejected = TRUE]]
       ELSE LET cached == RedisGet(AccessibleKey(proc[p].userId, proc[p].level))
            IN proc' = [proc EXCEPT ![p] =
                          IF ~IsNull(cached)
                          THEN [@ EXCEPT !.pc = "done", !.cached = cached,
                                         !.ret = Some(JSONParseList(Val(cached)))]
                          ELSE [@ EXCEPT !.pc = "accessibleQuery"]]
    /\ UNCHANGED <<store, enrollments, now, cache, calls, writes, down>>

\* lines 424-438: the query, and the entry into the loop; a rejected query
\* makes the call reject
AccessibleQuery(p) ==
    /\ proc[p].pc = "accessibleQuery"
    /\ IF "db" \in down
       THEN proc' = [proc EXCEPT ![p] =
                       [@ EXCEPT !.pc = "done", !.ret = Some(Thrown),
                                 !.rejected = TRUE]]
       ELSE
       LET rows == PublishedCourses(proc[p].level)
       IN proc' = [proc EXCEPT ![p] =
                     IF Len(rows) > 0
                     THEN [@ EXCEPT !.pc = "cacheGet", !.courseList = rows,
                                    !.contentId = Head(rows).id,
                                    !.contentType = "course"]
                     ELSE [@ EXCEPT !.pc = "accessibleSetex"]]
    /\ UNCHANGED <<store, enrollments, now, cache, calls, writes, down>>

\* lines 449-452
AccessibleSetex(p) ==
    /\ proc[p].pc = "accessibleSetex"
    /\ IF "redis" \in down
       THEN /\ proc' = [proc EXCEPT ![p] =
                          [@ EXCEPT !.pc = "done", !.ret = Some(Thrown),
                                 !.rejected = TRUE]]
            /\ UNCHANGED cache
       ELSE /\ cache' =
                 {IF e.key = AccessibleKey(proc[p].userId, proc[p].level)
                  THEN [e EXCEPT !.basis = proc[p].decidedAt] ELSE e
                    : e \in RedisSetex(AccessibleKey(proc[p].userId, proc[p].level),
                                       AccessibleTTL,
                                       JSONStringifyList(proc[p].accessibleCourses))}
            /\ proc' = [proc EXCEPT ![p] =
                          [@ EXCEPT !.pc = "done",
                                    !.ret = Some(proc[p].accessibleCourses)]]
    /\ UNCHANGED <<store, enrollments, now, calls, writes, down>>

(***************************************************************************)
(* enrollUser (lines 500-551) and clearUserContentCache (lines 477-492).   *)
(***************************************************************************)
\* lines 543-550
EnrollSystemError ==
    [success |-> FALSE, message |-> "System error occurred",
     code |-> "SYSTEM_ERROR"]

CallEnrollUser(p, userId, courseId) ==
    /\ proc[p].pc \in {"idle", "done"}
    /\ calls' = calls + 1
    /\ proc' = [proc EXCEPT ![p] =
                  [NewCall(p, "enrollUser")
                      EXCEPT !.pc = "cacheGet",
                             !.userId = userId,
                             !.contentId = courseId,
                             !.contentType = "course"]]
    /\ UNCHANGED <<store, enrollments, now, cache, writes, down>>

\* mutant: an existing row that is not active is deleted and the enrollment
\* goes on
EnrollSelectExisting_ReplaceInactive(p) ==
    /\ proc[p].pc = "enrollExisting"
    /\ LET existingEnrollment ==
               {e \in enrollments : /\ e.user_id = proc[p].userId
                                     /\ e.course_id = proc[p].contentId}
       IN IF "db" \in down
          THEN /\ proc' = [proc EXCEPT ![p] =
                             [@ EXCEPT !.pc = "done",
                                       !.ret = Some(EnrollSystemError)]]
               /\ UNCHANGED enrollments
          ELSE IF \E e \in existingEnrollment : e.is_active
               THEN /\ proc' = [proc EXCEPT ![p] =
                                  [@ EXCEPT !.pc = "done",
                                            !.ret = Some([success |-> FALSE,
                                                          message |-> "User already enrolled in course",
                                                          code |-> "ALREADY_ENROLLED"])]]
                    /\ UNCHANGED enrollments
               ELSE /\ proc' = [proc EXCEPT ![p] = [@ EXCEPT !.pc = "enrollInsert"]]
                    /\ enrollments' = enrollments \ existingEnrollment
    /\ UNCHANGED <<store, now, cache, calls, writes, down>>

\* lines 512-524, and the catch of lines 543-550 when the query rejects
EnrollSelectExisting(p) ==
    /\ proc[p].pc = "enrollExisting"
    /\ IF "db" \in down
       THEN proc' = [proc EXCEPT ![p] =
                       [@ EXCEPT !.pc = "done", !.ret = Some(EnrollSystemError)]]
       ELSE
       LET existingEnrollment ==
               {e \in enrollments : /\ e.user_id = proc[p].userId
                                     /\ e.course_id = proc[p].contentId}
       IN proc' = [proc EXCEPT ![p] =
                     IF Cardinality(existingEnrollment) > 0
                     THEN [@ EXCEPT !.pc = "done",
                                    !.ret = Some([success |-> FALSE,
                                                  message |-> "User already enrolled in course",
                                                  code |-> "ALREADY_ENROLLED"])]
                     ELSE [@ EXCEPT !.pc = "enrollInsert"]]
    /\ UNCHANGED <<store, enrollments, now, cache, calls, writes, down>>

\* lines 526-533 and the catch of lines 543-550: the INSERT fails on
\* UNIQUE(user_id, course_id) when a row for the pair exists, and when the
\* database is unreachable
EnrollInsert(p) ==
    /\ proc[p].pc = "enrollInsert"
    /\ IF \/ "db" \in down
          \/ \E e \in enrollments : /\ e.user_id = proc[p].userId
                                     /\ e.course_id = proc[p].contentId
       THEN /\ proc' = [proc EXCEPT ![p] =
                          [@ EXCEPT !.pc = "done",
                                    !.ret = Some(EnrollSystemError)]]
            /\ UNCHANGED enrollments
       ELSE /\ enrollments' = enrollments \cup
                  {[id |-> <<"e", proc[p].callNo>>,
                    user_id |-> proc[p].userId,
                    course_id |-> proc[p].contentId,
                    is_active |-> TRUE, expires_at |-> Null]}
            /\ proc' = [proc EXCEPT ![p] = [@ EXCEPT !.pc = "clearKeys1"]]
    /\ UNCHANGED <<store, now, cache, calls, writes, down>>

CallClearUserContentCache(p, userId) ==
    /\ proc[p].pc \in {"idle", "done"}
    /\ calls' = calls + 1
    /\ proc' = [proc EXCEPT ![p] =
                  [NewCall(p, "clearUserContentCache")
                      EXCEPT !.pc = "clearKeys1", !.userId = userId]]
    /\ UNCHANGED <<store, enrollments, now, cache, writes, down>>

\* lines 477-492: awaited by enrollUser at line 536, which then returns
\* (lines 538-542) or catches the rejection (lines 543-550); called on its
\* own it resolves to undefined or rejects
ClearUserContentCache(p) ==
    /\ proc[p].pc \in {"clearKeys1", "clearDel1", "clearKeys2", "clearDel2"}
    /\ LET success == [success |-> TRUE,
                       message |-> "Successfully enrolled in course",
                       enrollmentId |-> <<"e", proc[p].callNo>>]
           result == IF proc[p].op = "enrollUser" THEN success ELSE Undefined
           failure == IF proc[p].op = "enrollUser"
                      THEN EnrollSystemError ELSE Thrown
           finished == [proc EXCEPT ![p] =
                          [@ EXCEPT !.pc = "done", !.ret = Some(result)]]
       IN CASE "redis" \in down ->
                 /\ proc' = [proc EXCEPT ![p] =
                               [@ EXCEPT !.pc = "done",
                                         !.ret = Some(failure),
                                         !.rejected =
                                            (proc[p].op # "enrollUser")]]
                 /\ UNCHANGED cache
            [] "redis" \notin down /\ proc[p].pc = "clearKeys1" ->
                 LET keys == RedisKeys("content_access", proc[p].userId)
                 IN /\ proc' = [proc EXCEPT ![p] =
                                  [@ EXCEPT !.keys = keys,
                                            !.pc = IF Cardinality(keys) > 0
                                                   THEN "clearDel1"
                                                   ELSE "clearKeys2"]]
                    /\ UNCHANGED cache
            [] "redis" \notin down /\ proc[p].pc = "clearDel1" ->
                 /\ cache' = RedisDel(proc[p].keys)
                 /\ proc' = [proc EXCEPT ![p] = [@ EXCEPT !.pc = "clearKeys2"]]
            [] "redis" \notin down /\ proc[p].pc = "clearKeys2" ->
                 LET accessibleKeys ==
                        RedisKeys("accessible_content", proc[p].userId)
                 IN /\ proc' = IF Cardinality(accessibleKeys) > 0
                               THEN [proc EXCEPT ![p] =
                                       [@ EXCEPT !.accessibleKeys = accessibleKeys,
                                                 !.pc = "clearDel2"]]
                               ELSE finished
                    /\ UNCHANGED cache
            [] "redis" \notin down /\ proc[p].pc = "clearDel2" ->
                 /\ cache' = RedisDel(proc[p].accessibleKeys)
                 /\ proc' = finished
    /\ UNCHANGED <<store, enrollments, now, calls, writes, down>>

(***************************************************************************)
(* Rows of the initial databases.  Ids are tuples standing for UUIDs.      *)
(***************************************************************************)
U(i) == <<"u", i>>
C(i) == <<"c", i>>
M(i) == <<"m", i>>
L(i, j) == <<"l", i, j>>

UserRow(id, active, verified) ==
    [id |-> id, is_active |-> active, is_verified |-> verified]

SubscriptionRow(userId, plan, status, periodEnd, trialEnd) ==
    [user_id |-> userId, plan |-> plan, status |-> status,
     current_period_end |-> periodEnd, trial_end |-> trialEnd]

CourseRow(id, level, published, free, requiresSub, prereqs) ==
    [id |-> id, level |-> level, is_published |-> published,
     is_free |-> free, requires_subscription |-> requiresSub,
     prerequisites |-> prereqs]

ModuleRow(id, courseId, prereqs) ==
    [id |-> id, course_id |-> courseId, prerequisites |-> prereqs]

\* course i has one module M(i) holding its n lessons L(i,1) .. L(i,n)
LessonRows(i, n) == {[id |-> L(i, j), module_id |-> M(i)] : j \in 1..n}

\* lesson-level progress of a user in course i: the first k lessons are
\* completed, the next one (if any) is in progress, the rest not started
LessonProgress(userId, i, n, k) ==
    {[user_id |-> userId, course_id |-> C(i), module_id |-> Some(M(i)),
      lesson_id |-> Some(L(i, j)),
      status |-> IF j <= k THEN "completed" ELSE "in_progress"]
        : j \in 1..(IF k < n THEN k + 1 ELSE n)}

EnrollmentRow(id, userId, courseId, active, expiresAt) ==
    [id |-> id, user_id |-> userId, course_id |-> courseId,
     is_active |-> active, expires_at |-> expiresAt]

Dates == {Null, Some(Past), Some(StartTime), Some(Future)}

\* the enrollment table for (user, course): no row, or one row
EnrollmentChoices(userId, courseId) ==
    {{}} \cup {{EnrollmentRow(<<"e", 0>>, userId, courseId, a, x)}
                 : a \in BOOLEAN, x \in Dates}

InitProcs ==
    /\ now = StartTime
    /\ cache = {}
    /\ proc = [p \in Procs |-> IdleProc]
    /\ calls = 0
    /\ writes = 0
    /\ down = {}

(***************************************************************************)
(* SpecOrder: every check of the pipeline can pass or fail on its own for  *)
(* the requested course C(1), its module M(1) and its lesson L(1,1).       *)
(***************************************************************************)
PrereqChoices == {<<>>, <<2>>, <<3>>, <<3, 2>>, <<2, 3>>}

InitOrder ==
    /\ InitProcs
    /\ \E verified \in BOOLEAN :
         users = {UserRow(U(1), TRUE, verified)}
    /\ subscriptions \in
         {{}, {SubscriptionRow(U(1), "pro", "active", Some(Future), Null)}}
    /\ \E level \in Levels, published \in BOOLEAN, free \in BOOLEAN,
          pre \in PrereqChoices :
         /\ courses =
              {CourseRow(C(1), level, published, free, ~free,
                         [i \in DOMAIN pre |-> C(pre[i])]),
               CourseRow(C(2), "beginner", TRUE, TRUE, FALSE, <<>>),
               CourseRow(C(3), "intermediate", TRUE, TRUE, FALSE, <<>>)}
         /\ modules =
              {ModuleRow(M(1), C(1), [i \in DOMAIN pre |-> M(pre[i])]),
               ModuleRow(M(2), C(2), <<>>),
               ModuleRow(M(3), C(3), <<>>)}
    /\ lessons = LessonRows(1, 1) \cup LessonRows(2, 1) \cup LessonRows(3, 1)
    /\ \E k2 \in 0..1, k3 \in 0..1 :
         user_progress = LessonProgress(U(1), 2, 1, k2)
                           \cup LessonProgress(U(1), 3, 1, k3)
    /\ enrollments \in EnrollmentChoices(U(1), C(1))

\* the requests of the evaluation specifications
Targets == {<<C(1), "course">>, <<M(1), "module">>, <<L(1, 1), "lesson">>}

EvalProc == 1

NextEval ==
    \/ /\ calls < MaxEvalCalls
       /\ \E t \in Targets :
            CallCheckContentAccess(EvalProc, U(1), t[1], t[2])
    \/ CacheGet(EvalProc)
    \/ GetUser(EvalProc)
    \/ GetContent(EvalProc)
    \/ PerformAccessChecks(EvalProc)
    \/ CacheSetex(EvalProc)

SpecOrder == InitOrder /\ [][NextEval]_vars

(***************************************************************************)
(* SpecSubscription: every subscription state of the user against every    *)
(* combination of the is_free and requires_subscription flags.             *)
(***************************************************************************)
SubscriptionChoices(userId) ==
    {{}} \cup {{SubscriptionRow(userId, "pro", status, periodEnd, trialEnd)}
                 : status \in SubscriptionStatuses,
                   periodEnd \in Dates, trialEnd \in Dates}

InitSubscription ==
    /\ InitProcs
    /\ \E verified \in BOOLEAN :
         users = {UserRow(U(1), TRUE, verified)}
    /\ subscriptions \in SubscriptionChoices(U(1))
    /\ \E published \in BOOLEAN, free \in BOOLEAN, requiresSub \in BOOLEAN :
         courses = {CourseRow(C(1), "beginner", published, free, requiresSub,
                              <<>>)}
    /\ modules = {ModuleRow(M(1), C(1), <<>>)}
    /\ lessons = LessonRows(1, 1)
    /\ user_progress = {}
    /\ enrollments \in
         {{}, {EnrollmentRow(<<"e", 0>>, U(1), C(1), TRUE, Null)}}

SpecSubscription == InitSubscription /\ [][NextEval]_vars

(***************************************************************************)
(* SpecLevel: the requested course C(1) sits one level above three feeder  *)
(* courses C(2), C(3), C(4) of different sizes, one of them possibly       *)
(* unpublished, in which the user has completed any number of lessons.     *)
(***************************************************************************)
LessonCounts == <<{0, 1}, {1, 2}, {2, 9}>>

NextLevel(level) == IF level = "beginner" THEN "intermediate" ELSE "advanced"

InitLevel ==
    /\ InitProcs
    /\ users = {UserRow(U(1), TRUE, TRUE)}
    /\ subscriptions = {}
    /\ \E feeder \in {"beginner", "intermediate"}, published2 \in BOOLEAN :
         courses =
           {CourseRow(C(1), NextLevel(feeder), TRUE, TRUE, FALSE, <<>>),
            CourseRow(C(2), feeder, published2, TRUE, FALSE, <<>>),
            CourseRow(C(3), feeder, TRUE, TRUE, FALSE, <<>>),
            CourseRow(C(4), feeder, TRUE, TRUE, FALSE, <<>>)}
    /\ modules = {ModuleRow(M(i), C(i), <<>>) : i \in 1..4}
    /\ \E n2 \in LessonCounts[1], n3 \in LessonCounts[2],
          n4 \in LessonCounts[3] :
         /\ lessons = LessonRows(1, 1) \cup LessonRows(2, n2)
                         \cup LessonRows(3, n3) \cup LessonRows(4, n4)
         /\ \E k2 \in 0..n2, k3 \in 0..n3, k4 \in 0..n4 :
              user_progress = LessonProgress(U(1), 2, n2, k2)
                                \cup LessonProgress(U(1), 3, n3, k3)
                                \cup LessonProgress(U(1), 4, n4, k4)
    /\ enrollments = {EnrollmentRow(<<"e", 0>>, U(1), C(1), TRUE, Null)}

SpecLevel == InitLevel /\ [][NextEval]_vars

(***************************************************************************)
(* SpecEnroll: two callers check and enroll user U(1) in the beginner      *)
(* course C(1) while the enrollment table is also written from outside the *)
(* service (administration, cascading deletes): a row of the pair may be   *)
(* removed or deactivated.                                                 *)
(***************************************************************************)
MaxSysCalls == 3
MaxWrites == 1

ExternalEnrollmentWrite ==
    /\ writes < MaxWrites
    /\ writes' = writes + 1
    /\ \E e \in enrollments :
         \/ enrollments' = enrollments \ {e}
         \/ /\ e.is_active
            /\ enrollments' = (enrollments \ {e})
                                 \cup {[e EXCEPT !.is_active = FALSE]}
    /\ UNCHANGED <<store, now, cache, proc, calls, down>>

InitEnroll ==
    /\ InitProcs
    /\ \E verified \in BOOLEAN :
         users = {UserRow(U(1), TRUE, verified)}
    /\ subscriptions = {}
    /\ courses = {CourseRow(C(1), "beginner", TRUE, TRUE, FALSE, <<>>)}
    /\ modules = {ModuleRow(M(1), C(1), <<>>)}
    /\ lessons = LessonRows(1, 1)
    /\ user_progress = {}
    /\ enrollments \in EnrollmentChoices(U(1), C(1))

NextEnroll ==
    \/ /\ calls < MaxSysCalls
       /\ \E p \in Procs : CallCheckContentAccess(p, U(1), C(1), "course")
    \/ /\ calls < MaxSysCalls
       /\ \E p \in Procs : CallEnrollUser(p, U(1), C(1))
    \/ \E p \in Procs :
         \/ CacheGet(p)
         \/ GetUser(p)
         \/ GetContent(p)
         \/ PerformAccessChecks(p)
         \/ CacheSetex(p)
         \/ EnrollSelectExisting(p)
         \/ EnrollInsert(p)
         \/ ClearUserContentCache(p)
    \/ ExternalEnrollmentWrite

SpecEnroll == InitEnroll /\ [][NextEnroll]_vars

(***************************************************************************)
(* SpecCache: two callers evaluate and invalidate for user U(1) while the   *)
(* clock advances and the user's progress is written from                  *)
(* outside the service (the progress routes): the lesson in progress in    *)
(* the beginner course C(2) becomes completed, which opens the level gate  *)
(* of the intermediate course C(1).                                        *)
(***************************************************************************)
MaxCacheCalls == 3
MaxTicks == 2
TickSeconds == 200

ExternalProgressWrite ==
    /\ writes < MaxWrites
    /\ writes' = writes + 1
    /\ \E up \in user_progress :
         /\ up.status = "in_progress"
         /\ user_progress' = (user_progress \ {up})
                                \cup {[up EXCEPT !.status = "completed"]}
    /\ UNCHANGED <<users, subscriptions, courses, modules, lessons,
                   enrollments, now, cache, proc, calls, down>>

Tick ==
    /\ now < StartTime + MaxTicks * TickSeconds
    /\ now' = now + TickSeconds
    /\ UNCHANGED <<store, enrollments, cache, proc, calls, writes, down>>

InitCache ==
    /\ InitProcs
    /\ users = {UserRow(U(1), TRUE, TRUE)}
    /\ subscriptions = {}
    /\ courses = {CourseRow(C(1), "intermediate", TRUE, TRUE, FALSE, <<>>),
                  CourseRow(C(2), "beginner", TRUE, TRUE, FALSE, <<>>)}
    /\ modules = {ModuleRow(M(1), C(1), <<>>), ModuleRow(M(2), C(2), <<>>)}
    /\ lessons = LessonRows(1, 1) \cup LessonRows(2, 1)
    /\ \E k2 \in 0..1 : user_progress = LessonProgress(U(1), 2, 1, k2)
    /\ enrollments = {EnrollmentRow(<<"e", 0>>, U(1), C(1), TRUE, Null),
                      EnrollmentRow(<<"e", -1>>, U(1), C(2), TRUE, Null)}

NextCache ==
    \/ /\ calls < MaxCacheCalls
       /\ \E p \in Procs : CallCheckContentAccess(p, U(1), C(1), "course")
    \/ /\ calls < MaxCacheCalls
       /\ \E p \in Procs : CallClearUserContentCache(p, U(1))
    \/ \E p \in Procs :
         \/ CacheGet(p)
         \/ GetUser(p)
         \/ GetContent(p)
         \/ PerformAccessChecks(p)
         \/ CacheSetex(p)
         \/ ClearUserContentCache(p)
    \/ ExternalProgressWrite
    \/ Tick

SpecCache == InitCache /\ [][NextCache]_vars

(***************************************************************************)
(* SpecClear: one caller, one call after the other, fills the cache with   *)
(* decisions and lists of the users U(1) and U(2) and invalidates either   *)
(* user.                                                                   *)
(***************************************************************************)
MaxClearCalls == 3

InitClear ==
    /\ InitProcs
    /\ users = {UserRow(U(1), TRUE, TRUE), UserRow(U(2), TRUE, TRUE)}
    /\ subscriptions = {}
    /\ courses = {CourseRow(C(1), "intermediate", TRUE, TRUE, FALSE, <<>>),
                  CourseRow(C(2), "beginner", TRUE, TRUE, FALSE, <<>>)}
    /\ modules = {ModuleRow(M(1), C(1), <<>>), ModuleRow(M(2), C(2), <<>>)}
    /\ lessons = LessonRows(1, 1) \cup LessonRows(2, 1)
    /\ \E k2 \in 0..1 : user_progress = LessonProgress(U(1), 2, 1, k2)
    /\ enrollments = {EnrollmentRow(<<"e", 0>>, U(1), C(1), TRUE, Null),
                      EnrollmentRow(<<"e", -1>>, U(1), C(2), TRUE, Null),
                      EnrollmentRow(<<"e", -2>>, U(2), C(2), TRUE, Null)}

NextClear ==
    \/ /\ calls < MaxClearCalls
       /\ \E u \in {U(1), U(2)}, t \in Targets :
            CallCheckContentAccess(EvalProc, u, t[1], t[2])
    \/ /\ calls < MaxClearCalls
       /\ \E u \in {U(1), U(2)}, level \in {"beginner", "intermediate"} :
            CallGetAccessibleContent(EvalProc, u, level)
    \/ /\ calls < MaxClearCalls
       /\ \E u \in {U(1), U(2)} : CallClearUserContentCache(EvalProc, u)
    \/ CacheGet(EvalProc)
    \/ GetUser(EvalProc)
    \/ GetContent(EvalProc)
    \/ PerformAccessChecks(EvalProc)
    \/ CacheSetex(EvalProc)
    \/ AccessibleGet(EvalProc)
    \/ AccessibleQuery(EvalProc)
    \/ AccessibleSetex(EvalProc)
    \/ ClearUserContentCache(EvalProc)

SpecClear == InitClear /\ [][NextClear]_vars

(***************************************************************************)
(* SpecFault: the evaluations of SpecCache's database by one caller while  *)
(* the connection to the cache server is lost and restored.                *)
(***************************************************************************)
RedisFault ==
    /\ down' = IF "redis" \in down THEN down \ {"redis"}
               ELSE down \cup {"redis"}
    /\ UNCHANGED <<store, enrollments, now, cache, proc, calls, writes>>

NextFault ==
    \/ NextEval
    \/ RedisFault

SpecFault == InitCache /\ [][NextFault]_vars

(***************************************************************************)
(* SpecLookup: requests of one caller for users and content that may not   *)
(* exist: the user U(1) is absent, inactive or active, U(2) never exists;  *)
(* the requested id is absent, or is the id of content of another type, or *)
(* the type is not one of course, module, lesson.                          *)
(***************************************************************************)
LookupTargets ==
    Targets \cup {<<C(2), "course">>, <<C(1), "module">>, <<M(1), "lesson">>,
                  <<L(1, 1), "course">>, <<C(1), "quiz">>}

InitLookup ==
    /\ InitProcs
    /\ users \in {{}, {UserRow(U(1), FALSE, TRUE)},
                  {UserRow(U(1), TRUE, FALSE)}, {UserRow(U(1), TRUE, TRUE)}}
    /\ subscriptions = {}
    /\ \E published \in BOOLEAN :
         courses = {CourseRow(C(1), "beginner", published, TRUE, FALSE, <<>>)}
    /\ modules = {ModuleRow(M(1), C(1), <<>>)}
    /\ lessons = LessonRows(1, 1)
    /\ user_progress = {}
    /\ enrollments = IF users = {} THEN {}
                     ELSE {EnrollmentRow(<<"e", 0>>, U(1), C(1), TRUE, Null)}

NextLookup ==
    \/ /\ calls < MaxEvalCalls
       /\ \E u \in {U(1), U(2)}, t \in LookupTargets :
            CallCheckContentAccess(EvalProc, u, t[1], t[2])
    \/ CacheGet(EvalProc)
    \/ GetUser(EvalProc)
    \/ GetContent(EvalProc)
    \/ PerformAccessChecks(EvalProc)
    \/ CacheSetex(EvalProc)

SpecLookup == InitLookup /\ [][NextLookup]_vars

(***************************************************************************)
(* SpecCompletion: the beginner course C(2), the only published one of its *)
(* level, has 0 to MaxLessons lessons of which user U(1) has completed any *)
(* number; user U(2) has completed all of them, and U(1) has completed the *)
(* lesson of the unpublished beginner course C(3).  U(1) requests the      *)
(* intermediate course C(1).                                               *)
(***************************************************************************)
MaxLessons == 4

InitCompletion ==
    /\ InitProcs
    /\ users = {UserRow(U(1), TRUE, TRUE), UserRow(U(2), TRUE, TRUE)}
    /\ subscriptions = {}
    /\ courses = {CourseRow(C(1), "intermediate", TRUE, TRUE, FALSE, <<>>),
                  CourseRow(C(2), "beginner", TRUE, TRUE, FALSE, <<>>),
                  CourseRow(C(3), "beginner", FALSE, TRUE, FALSE, <<>>)}
    /\ modules = {ModuleRow(M(i), C(i), <<>>) : i \in 1..3}
    /\ \E n \in 0..MaxLessons :
         /\ lessons = LessonRows(1, 1) \cup LessonRows(2, n) \cup LessonRows(3, 1)
         /\ \E k \in 0..n :
              user_progress = LessonProgress(U(1), 2, n, k)
                                \cup LessonProgress(U(2), 2, n, n)
                                \cup LessonProgress(U(1), 3, 1, 1)
    /\ enrollments \in EnrollmentChoices(U(1), C(1))

SpecCompletion == InitCompletion /\ [][NextEval]_vars

(***************************************************************************)
(* SpecRepeat: two callers repeat requests while the clock advances and    *)
(* nothing is written.  The course C(1) requires a subscription; user U(1) *)
(* has none, one, or (UNIQUE(user_id, plan) allows it) an active one and a *)
(* cancelled one of another plan.  U(2) and C(2) do not exist.  No date    *)
(* of the tables lies within the time the clock covers.                    *)
(***************************************************************************)
InitRepeat ==
    /\ InitProcs
    /\ users = {UserRow(U(1), TRUE, TRUE)}
    /\ subscriptions \in
         {{}, {SubscriptionRow(U(1), "pro", "active", Some(Future), Null)},
              {SubscriptionRow(U(1), "pro", "active", Some(Future), Null),
               SubscriptionRow(U(1), "basic", "cancelled", Some(Past), Null)}}
    /\ courses = {CourseRow(C(1), "beginner", TRUE, FALSE, TRUE, <<>>)}
    /\ modules = {ModuleRow(M(1), C(1), <<>>)}
    /\ lessons = LessonRows(1, 1)
    /\ user_progress = {}
    /\ enrollments = {EnrollmentRow(<<"e", 0>>, U(1), C(1), TRUE, Null)}

NextRepeat ==
    \/ /\ calls < MaxEvalCalls
       /\ \E p \in Procs, u \in {U(1), U(2)}, c \in {C(1), C(2)} :
            CallCheckContentAccess(p, u, c, "course")
    \/ \E p \in Procs :
         \/ CacheGet(p)
         \/ GetUser(p)
         \/ GetContent(p)
         \/ PerformAccessChecks(p)
         \/ CacheSetex(p)
    \/ Tick

SpecRepeat == InitRepeat /\ [][NextRepeat]_vars

(***************************************************************************)
(* SpecStoreFault: one caller runs the three exposed operations on         *)
(* SpecCache's database while the connection to the database is lost and   *)
(* restored, and an enrollment row may be removed or deactivated from      *)
(* outside the service.                                                     *)
(***************************************************************************)
DbFault ==
    /\ down' = IF "db" \in down THEN down \ {"db"} ELSE down \cup {"db"}
    /\ UNCHANGED <<store, enrollments, now, cache, proc, calls, writes>>

NextStoreFault ==
    \/ /\ calls < MaxEvalCalls
       /\ \E t \in Targets : CallCheckContentAccess(EvalProc, U(1), t[1], t[2])
    \/ /\ calls < MaxEvalCalls
       /\ \E level \in {"beginner", "intermediate"} :
            CallGetAccessibleContent(EvalProc, U(1), level)
    \/ /\ calls < MaxEvalCalls
       /\ \E c \in {C(1), C(2)} : CallEnrollUser(EvalProc, U(1), c)
    \/ CacheGet(EvalProc)
    \/ GetUser(EvalProc)
    \/ GetContent(EvalProc)
    \/ PerformAccessChecks(EvalProc)
    \/ CacheSetex(EvalProc)
    \/ AccessibleGet(EvalProc)
    \/ AccessibleQuery(EvalProc)
    \/ AccessibleSetex(EvalProc)
    \/ EnrollSelectExisting(EvalProc)
    \/ EnrollInsert(EvalProc)
    \/ ClearUserContentCache(EvalProc)
    \/ ExternalEnrollmentWrite
    \/ DbFault

SpecStoreFault == InitCache /\ [][NextStoreFault]_vars

(***************************************************************************)
(* SpecCodes: one caller, a database in which every check of the pipeline  *)
(* can fail (user absent, unverified or verified; no, an expired or a      *)
(* current subscription; the course C(1) unpublished, paid, one level up,  *)
(* with the prerequisite C(2); no, an active, an inactive or an expired    *)
(* enrollment), requests for C(1), its module and the absent course C(3),  *)
(* and a database connection that is lost and restored.                    *)
(***************************************************************************)
CodeTargets == {<<C(1), "course">>, <<M(1), "module">>, <<C(3), "course">>}

InitCodes ==
    /\ InitProcs
    /\ users \in {{}, {UserRow(U(1), TRUE, FALSE)}, {UserRow(U(1), TRUE, TRUE)}}
    /\ subscriptions \in
         IF users = {} THEN {{}}
         ELSE {{}, {SubscriptionRow(U(1), "pro", "active", Some(Past), Null)},
                   {SubscriptionRow(U(1), "pro", "active", Some(Future), Null)}}
    /\ \E level \in {"beginner", "intermediate"}, published \in BOOLEAN,
          free \in BOOLEAN, pre \in {<<>>, <<2>>} :
         /\ courses =
              {CourseRow(C(1), level, published, free, ~free,
                         [i \in DOMAIN pre |-> C(pre[i])]),
               CourseRow(C(2), "beginner", TRUE, TRUE, FALSE, <<>>)}
         /\ modules =
              {ModuleRow(M(1), C(1), [i \in DOMAIN pre |-> M(pre[i])]),
               ModuleRow(M(2), C(2), <<>>)}
    /\ lessons = LessonRows(1, 1) \cup LessonRows(2, 1)
    /\ user_progress \in
         IF users = {} THEN {{}}
         ELSE {LessonProgress(U(1), 2, 1, k2) : k2 \in 0..1}
    /\ enrollments \in
         IF users = {} THEN {{}}
         ELSE {{}, {EnrollmentRow(<<"e", 0>>, U(1), C(1), TRUE, Null)},
                   {EnrollmentRow(<<"e", 0>>, U(1), C(1), FALSE, Null)},
                   {EnrollmentRow(<<"e", 0>>, U(1), C(1), TRUE, Some(Past))}}

NextCodes ==
    \/ /\ calls < MaxEvalCalls
       /\ \E t \in CodeTargets :
            CallCheckContentAccess(EvalProc, U(1), t[1], t[2])
    \/ CacheGet(EvalProc)
    \/ GetUser(EvalProc)
    \/ GetContent(EvalProc)
    \/ PerformAccessChecks(EvalProc)
    \/ CacheSetex(EvalProc)
    \/ DbFault

SpecCodes == InitCodes /\ [][NextCodes]_vars

(***************************************************************************)
(* SpecExpiry: one caller repeats a decision request and the list requests *)
(* of user U(1) on SpecCache's database while the clock advances in steps  *)
(* that reach exactly 300 and 600 seconds after a write to the cache.      *)
(***************************************************************************)
MaxExpiryCalls == 3
ElapseSeconds == 100
MaxElapsed == 700

Elapse ==
    /\ now < StartTime + MaxElapsed
    /\ now' = now + ElapseSeconds
    /\ UNCHANGED <<store, enrollments, cache, proc, calls, writes, down>>

NextExpiry ==
    \/ /\ calls < MaxExpiryCalls
       /\ CallCheckContentAccess(EvalProc, U(1), C(1), "course")
    \/ /\ calls < MaxExpiryCalls
       /\ \E level \in {"beginner", "intermediate"} :
            CallGetAccessibleContent(EvalProc, U(1), level)
    \/ CacheGet(EvalProc)
    \/ GetUser(EvalProc)
    \/ GetContent(EvalProc)
    \/ PerformAccessChecks(EvalProc)
    \/ CacheSetex(EvalProc)
    \/ AccessibleGet(EvalProc)
    \/ AccessibleQuery(EvalProc)
    \/ AccessibleSetex(EvalProc)
    \/ Elapse

SpecExpiry == InitCache /\ [][NextExpiry]_vars

(***************************************************************************)
(* SpecGranularity: the course C(1) lists the course C(2) as prerequisite; *)
(* its module M(1) lists the module M(2) or the course C(2).  User U(1)    *)
(* has any of a course-level record for C(2), a module-level record for    *)
(* M(2) and a lesson-level record for L(2,1), each in progress or          *)
(* completed.                                                              *)
(***************************************************************************)
ProgressRow(userId, courseId, moduleId, lessonId, status) ==
    [user_id |-> userId, course_id |-> courseId, module_id |-> moduleId,
     lesson_id |-> lessonId, status |-> status]

\* no record, a record in progress, or a completed record
ProgressChoices(userId, courseId, moduleId, lessonId) ==
    {{}} \cup {{ProgressRow(userId, courseId, moduleId, lessonId, status)}
                 : status \in {"in_progress", "completed"}}

InitGranularity ==
    /\ InitProcs
    /\ users = {UserRow(U(1), TRUE, TRUE)}
    /\ subscriptions = {}
    /\ courses = {CourseRow(C(1), "beginner", TRUE, TRUE, FALSE, <<C(2)>>),
                  CourseRow(C(2), "beginner", TRUE, TRUE, FALSE, <<>>)}
    /\ \E pre \in {<<M(2)>>, <<C(2)>>} :
         modules = {ModuleRow(M(1), C(1), pre), ModuleRow(M(2), C(2), <<>>)}
    /\ lessons = LessonRows(1, 1) \cup LessonRows(2, 1)
    /\ \E courseLevel \in ProgressChoices(U(1), C(2), Null, Null),
          moduleLevel \in ProgressChoices(U(1), C(2), Some(M(2)), Null),
          lessonLevel \in ProgressChoices(U(1), C(2), Some(M(2)), Some(L(2, 1))) :
         user_progress = courseLevel \cup moduleLevel \cup lessonLevel
    /\ enrollments \in
         {{}, {EnrollmentRow(<<"e", 0>>, U(1), C(1), TRUE, Null)}}

SpecGranularity == InitGranularity /\ [][NextEval]_vars

(***************************************************************************)
(* SpecList: one caller requests decisions and lists for user U(1).  The   *)
(* beginner courses C(1), C(2), C(3) were created in this order; C(3) may  *)
(* be unpublished; the user is enrolled in any of them.  There is no       *)
(* intermediate course.  Nothing is written and the clock stands still.    *)
(***************************************************************************)
MaxListCalls == 3
ListCourses == 1..3

InitList ==
    /\ InitProcs
    /\ users = {UserRow(U(1), TRUE, TRUE)}
    /\ subscriptions = {}
    /\ \E published3 \in BOOLEAN :
         courses = {CourseRow(C(1), "beginner", TRUE, TRUE, FALSE, <<>>),
                    CourseRow(C(2), "beginner", TRUE, FALSE, FALSE, <<>>),
                    CourseRow(C(3), "beginner", published3, TRUE, FALSE, <<>>)}
    /\ modules = {ModuleRow(M(i), C(i), <<>>) : i \in ListCourses}
    /\ lessons = UNION {LessonRows(i, 1) : i \in ListCourses}
    /\ user_progress = {}
    /\ \E enrolled \in SUBSET ListCourses :
         enrollments = {EnrollmentRow(<<"e", -i>>, U(1), C(i), TRUE, Null)
                          : i \in enrolled}

NextList ==
    \/ /\ calls < MaxListCalls
       /\ \E i \in ListCourses :
            CallCheckContentAccess(EvalProc, U(1), C(i), "course")
    \/ /\ calls < MaxListCalls
       /\ \E level \in {"beginner", "intermediate"} :
            CallGetAccessibleContent(EvalProc, U(1), level)
    \/ CacheGet(EvalProc)
    \/ GetUser(EvalProc)
    \/ GetContent(EvalProc)
    \/ PerformAccessChecks(EvalProc)
    \/ CacheSetex(EvalProc)
    \/ AccessibleGet(EvalProc)
    \/ AccessibleQuery(EvalProc)
    \/ AccessibleSetex(EvalProc)

SpecList == InitList /\ [][NextList]_vars

(***************************************************************************)
(* SpecLadder: one course at each level, the advanced C(1), the            *)
(* intermediate C(2) and the beginner C(3), the two lower ones published   *)
(* or not.  The verified user U(1) holds a progress record for the lesson  *)
(* of each lower course; the learning-delivery subsystem advances the      *)
(* records (not_started, in_progress, completed) between requests for     *)
(* C(1) and C(2), and the clock moves past the life of a cached decision.  *)
(* Courses, modules and lessons never change.                              *)
(***************************************************************************)
MaxLadderCalls == 3
MaxAdvances == 2

ProgressStatuses == <<"not_started", "in_progress", "completed">>

StatusRank(status) ==
    CHOOSE i \in DOMAIN ProgressStatuses : ProgressStatuses[i] = status

\* user_progress.status moves one place forward
ExternalProgressAdvance ==
    /\ writes < MaxAdvances
    /\ writes' = writes + 1
    /\ \E up \in user_progress :
         /\ StatusRank(up.status) < Len(ProgressStatuses)
         /\ user_progress' =
              (user_progress \ {up})
                 \cup {[up EXCEPT
                          !.status = ProgressStatuses[StatusRank(up.status) + 1]]}
    /\ UNCHANGED <<users, subscriptions, courses, modules, lessons,
                   enrollments, now, cache, proc, calls, down>>

InitLadder ==
    /\ InitProcs
    /\ users = {UserRow(U(1), TRUE, TRUE)}
    /\ subscriptions = {}
    /\ \E published2 \in BOOLEAN, published3 \in BOOLEAN :
         courses = {CourseRow(C(1), "advanced", TRUE, TRUE, FALSE, <<>>),
                    CourseRow(C(2), "intermediate", published2, TRUE, FALSE, <<>>),
                    CourseRow(C(3), "beginner", published3, TRUE, FALSE, <<>>)}
    /\ modules = {ModuleRow(M(i), C(i), <<>>) : i \in 1..3}
    /\ lessons = LessonRows(1, 1) \cup LessonRows(2, 1) \cup LessonRows(3, 1)
    /\ \E s2 \in DOMAIN ProgressStatuses, s3 \in DOMAIN ProgressStatuses :
         user_progress =
           {ProgressRow(U(1), C(2), Some(M(2)), Some(L(2, 1)), ProgressStatuses[s2]),
            ProgressRow(U(1), C(3), Some(M(3)), Some(L(3, 1)), ProgressStatuses[s3])}
    /\ enrollments = {EnrollmentRow(<<"e", 0>>, U(1), C(1), TRUE, Null),
                      EnrollmentRow(<<"e", -1>>, U(1), C(2), TRUE, Null)}

LadderTargets == {C(1), C(2)}

NextLadder ==
    \/ /\ calls < MaxLadderCalls
       /\ \E c \in LadderTargets :
            CallCheckContentAccess(EvalProc, U(1), c, "course")
    \/ CacheGet(EvalProc)
    \/ GetUser(EvalProc)
    \/ GetContent(EvalProc)
    \/ PerformAccessChecks(EvalProc)
    \/ CacheSetex(EvalProc)
    \/ ExternalProgressAdvance
    \/ Tick

SpecLadder == InitLadder /\ [][NextLadder]_vars

(***************************************************************************)
(* SpecInactive: the account of user U(1) is deactivated (is_active false) *)
(* with any verification and subscription state and possibly an enrollment *)
(* from before; user U(2) is active, verified and enrolled.  One caller    *)
(* checks the course C(1), its module and a course that does not exist,    *)
(* and enrolls, for either user, while the enrollment of U(2) may be       *)
(* removed or deactivated from outside.                                    *)
(***************************************************************************)
MaxInactiveCalls == 3

InactiveTargets == {<<C(1), "course">>, <<M(1), "module">>, <<C(9), "course">>}

InitInactive ==
    /\ InitProcs
    /\ \E verified \in BOOLEAN :
         users = {UserRow(U(1), FALSE, verified), UserRow(U(2), TRUE, TRUE)}
    /\ subscriptions \in
         {{}, {SubscriptionRow(U(1), "pro", "active", Some(Future), Null)},
              {SubscriptionRow(U(1), "pro", "trial", Null, Some(Future))}}
    /\ \E published \in BOOLEAN, free \in BOOLEAN :
         courses = {CourseRow(C(1), "beginner", published, free, ~free, <<>>)}
    /\ modules = {ModuleRow(M(1), C(1), <<>>)}
    /\ lessons = LessonRows(1, 1)
    /\ user_progress = {}
    /\ \E before \in {{}, {EnrollmentRow(<<"e", -1>>, U(1), C(1), TRUE, Null)}} :
         enrollments = before
                         \cup {EnrollmentRow(<<"e", 0>>, U(2), C(1), TRUE, Null)}

NextInactive ==
    \/ /\ calls < MaxInactiveCalls
       /\ \E u \in {U(1), U(2)}, t \in InactiveTargets :
            CallCheckContentAccess(EvalProc, u, t[1], t[2])
    \/ /\ calls < MaxInactiveCalls
       /\ \E u \in {U(1), U(2)} : CallEnrollUser(EvalProc, u, C(1))
    \/ CacheGet(EvalProc)
    \/ GetUser(EvalProc)
    \/ GetContent(EvalProc)
    \/ PerformAccessChecks(EvalProc)
    \/ CacheSetex(EvalProc)
    \/ EnrollSelectExisting(EvalProc)
    \/ EnrollInsert(EvalProc)
    \/ ClearUserContentCache(EvalProc)
    \/ ExternalEnrollmentWrite

SpecInactive == InitInactive /\ [][NextInactive]_vars

(***************************************************************************)
(* Observations used by the properties: a finished checkContentAccess call *)
(* of process p, its returned decision, and the rows of the request in the *)
(* database.                                                               *)
(***************************************************************************)
Returned(p) == proc[p].pc = "done" /\ proc[p].op = "checkContentAccess"
Ret(p) == Val(proc[p].ret)

HasUser(p) == UserJoinRows(proc[p].userId) # {}
HasContent(p) == getContentDetails(proc[p].contentId, proc[p].contentType) # {}
ReqUser(p) == CHOOSE r \in UserJoinRows(proc[p].userId) : TRUE
ReqContent(p) ==
    Val(CHOOSE r \in getContentDetails(proc[p].contentId, proc[p].contentType) : TRUE)

\* check `name` of the pipeline denies the request of p in the current database
Fails(p, name) ==
    ~RunCheck(name, ReqUser(p), ReqContent(p), proc[p].contentType, now).hasAccess

SubscriptionCodes == {"SUBSCRIPTION_REQUIRED", "SUBSCRIPTION_EXPIRED"}
EnrollmentCodes == {"NOT_ENROLLED", "ENROLLMENT_INACTIVE", "ENROLLMENT_EXPIRED"}

C2_FreeContentNeverSubscriptionDenied ==
    \A p \in Procs :
        (Returned(p) /\ HasContent(p) /\ ReqContent(p).is_free) =>
            Ret(p).code \notin SubscriptionCodes

\* a user without any paid or trial coverage is decided on free content
\* that is also flagged as requiring a subscription
C2_Witness ==
    \E p \in Procs :
        /\ Returned(p) /\ HasUser(p) /\ HasContent(p)
        /\ ReqContent(p).is_free /\ ReqContent(p).requires_subscription
        /\ ReqContent(p).is_published /\ ReqUser(p).is_verified
        /\ ReqUser(p).subscription_status = Some("cancelled")
        /\ ReqUser(p).trial_end = Some(Past)
        /\ Ret(p).code = "ACCESS_GRANTED"

(***************************************************************************)
(* C3: for non-free content that requires a subscription the subscription  *)
(* check passes exactly when the subscription is active with a period end  *)
(* that has not elapsed, or the trial end is in the future, whatever the   *)
(* paid status is.                                                         *)
(***************************************************************************)
ActivePaid(user) ==
    /\ user.subscription_status = Some("active")
    /\ (IsNull(user.current_period_end) \/ Val(user.current_period_end) >= now)

TrialInFuture(user) == ~IsNull(user.trial_end) /\ Val(user.trial_end) > now

C3_SubscriptionPassesIffActiveOrTrial ==
    \A p \in Procs :
        (/\ Returned(p) /\ HasUser(p) /\ HasContent(p)
         /\ ~ReqContent(p).is_free /\ ReqContent(p).requires_subscription
         /\ ReqContent(p).is_published /\ ReqUser(p).is_verified) =>
            ((Ret(p).code \notin SubscriptionCodes)
                <=> (ActivePaid(ReqUser(p)) \/ TrialInFuture(ReqUser(p))))

(***************************************************************************)
(* C4: when the subscription check denies non-free content that requires   *)
(* a subscription, the code is SUBSCRIPTION_EXPIRED if the subscription is *)
(* active with an elapsed period end, and SUBSCRIPTION_REQUIRED if the     *)
(* user has no subscription or a cancelled one without a future trial end. *)
(***************************************************************************)
C4_SubscriptionDenialCode ==
    \A p \in Procs :
        (/\ Returned(p) /\ HasUser(p) /\ HasContent(p)
         /\ ~ReqContent(p).is_free /\ ReqContent(p).requires_subscription
         /\ Ret(p).code \in SubscriptionCodes) =>
            LET user == ReqUser(p)
                periodElapsed == /\ user.subscription_status = Some("active")
                                 /\ ~IsNull(user.current_period_end)
                                 /\ Val(user.current_period_end) < now
                uncovered == \/ IsNull(user.subscription_status)
                             \/ /\ user.subscription_status = Some("cancelled")
                                /\ ~TrialInFuture(user)
            IN /\ periodElapsed => Ret(p).code = "SUBSCRIPTION_EXPIRED"
               /\ uncovered => Ret(p).code = "SUBSCRIPTION_REQUIRED"

\* an active subscription whose period ended is denied as expired
C4_Witness ==
    \E p \in Procs :
        /\ Returned(p) /\ HasUser(p) /\ HasContent(p)
        /\ ~ReqContent(p).is_free /\ ReqContent(p).requires_subscription
        /\ ReqUser(p).subscription_status = Some("active")
        /\ ReqUser(p).current_period_end = Some(Past)
        /\ Ret(p).code = "SUBSCRIPTION_EXPIRED"

(***************************************************************************)
(* The unweighted average completion of a user over all published courses  *)
(* of a level, as the claims state it: the sum of the course completions   *)
(* (hundredths of a percent) over the number of courses.                   *)
(***************************************************************************)
RECURSIVE CompletionSum(_, _)
CompletionSum(userId, ids) ==
    IF ids = {} THEN 0
    ELSE LET id == CHOOSE id \in ids : TRUE
         IN calculate_course_completion(userId, id)
              + CompletionSum(userId, ids \ {id})

PublishedIds(level) ==
    {c.id : c \in {c \in courses : c.level = level /\ c.is_published}}

\* average >= pct
AverageAtLeast(userId, level, pct) ==
    /\ PublishedIds(level) # {}
    /\ CompletionSum(userId, PublishedIds(level))
          >= pct * 100 * Cardinality(PublishedIds(level))

\* the average rounded to the nearest integer
RoundedAverage(userId, level) ==
    IF PublishedIds(level) = {} THEN 0
    ELSE LET n == 100 * Cardinality(PublishedIds(level))
         IN (2 * CompletionSum(userId, PublishedIds(level)) + n) \div (2 * n)

EarlierThanLevelPass(p) ==
    ~Fails(p, "published") /\ ~Fails(p, "verified") /\ ~Fails(p, "subscription")

(***************************************************************************)
(* C5: the level gate of intermediate content passes exactly when the      *)
(* average completion over all published beginner courses is at least 80,  *)
(* that of advanced content exactly when the average over all published    *)
(* intermediate courses is at least 80, and beginner content always passes.*)
(***************************************************************************)
C5_LevelGateIffAverageAtLeast80 ==
    \A p \in Procs :
        (Returned(p) /\ HasUser(p) /\ HasContent(p) /\ EarlierThanLevelPass(p)) =>
            LET passed == Ret(p).code # "PREREQUISITE_LEVEL_NOT_COMPLETED"
                level == ReqContent(p).level
            IN CASE level = "beginner" -> passed
                 [] level = "intermediate" ->
                      passed <=> AverageAtLeast(proc[p].userId, "beginner", 80)
                 [] level = "advanced" ->
                      passed <=> AverageAtLeast(proc[p].userId, "intermediate", 80)

(***************************************************************************)
(* C6: a user whose average completion c over all published beginner       *)
(* courses is below 80 is denied published intermediate content that       *)
(* passes the earlier checks with PREREQUISITE_LEVEL_NOT_COMPLETED and the *)
(* metadata requiredCompletion = 80, currentCompletion = round(c).         *)
(***************************************************************************)
C6_BelowThresholdDeniedWithMetadata ==
    \A p \in Procs :
        (/\ Returned(p) /\ HasUser(p) /\ HasContent(p) /\ EarlierThanLevelPass(p)
         /\ ReqContent(p).level = "intermediate"
         /\ ~AverageAtLeast(proc[p].userId, "beginner", 80)) =>
            /\ Ret(p).code = "PREREQUISITE_LEVEL_NOT_COMPLETED"
            /\ Ret(p).metadata =
                 [requiredCompletion |-> 80,
                  currentCompletion |-> RoundedAverage(proc[p].userId, "beginner")]

EnrollmentRowsOf(userId, courseId) ==
    {e \in enrollments : e.user_id = userId /\ e.course_id = courseId}

EarlierThanEnrollmentPass(p) ==
    /\ EarlierThanLevelPass(p)
    /\ ~Fails(p, "level") /\ ~Fails(p, "prerequisites")

C8_BeginnerCourseGrantedWithoutEnrollment ==
    \A p \in Procs :
        (/\ Returned(p) /\ proc[p].contentType = "course"
         /\ HasUser(p) /\ HasContent(p)
         /\ ReqUser(p).is_verified
         /\ ReqContent(p).is_published /\ ReqContent(p).is_free
         /\ ReqContent(p).level = "beginner"
         /\ ReqContent(p).prerequisites = Some(<<>>)
         /\ EnrollmentRowsOf(proc[p].userId, proc[p].contentId) = {}) =>
            (Ret(p).hasAccess /\ Ret(p).code = "ACCESS_GRANTED")

(***************************************************************************)
(* Observations on enrollUser: a finished call, and the request being      *)
(* eligible (publication, verification, subscription, level gate and       *)
(* prerequisites pass) without an enrollment row that predates the calls.  *)
(***************************************************************************)
EnrollReturned(p) == proc[p].pc = "done" /\ proc[p].op = "enrollUser"

EligibleNotEnrolled(p) ==
    /\ HasUser(p) /\ HasContent(p)
    /\ EarlierThanEnrollmentPass(p)
    /\ \A e \in EnrollmentRowsOf(proc[p].userId, proc[p].contentId) :
           e.id # <<"e", 0>>

(***************************************************************************)
(* C9: enrollUser by an eligible user who is not yet enrolled returns      *)
(* success with an enrollment id and leaves exactly one enrollment row of  *)
(* the pair.  (Stated for the first call, with no outside write.)          *)
(***************************************************************************)
C9_EligibleUserGetsEnrolled ==
    \A p \in Procs :
        (EnrollReturned(p) /\ calls = 1 /\ writes = 0 /\ EligibleNotEnrolled(p)) =>
            /\ Ret(p).success
            /\ "enrollmentId" \in DOMAIN Ret(p)
            /\ Cardinality(EnrollmentRowsOf(proc[p].userId, proc[p].contentId)) = 1

(***************************************************************************)
(* C10: of two overlapping enrollUser calls by an eligible user who is not *)
(* yet enrolled, one returns success and the other ALREADY_ENROLLED, and   *)
(* exactly one enrollment row of the pair exists afterwards.               *)
(***************************************************************************)
C10_ConcurrentEnrollExactlyOnce ==
    \A p \in Procs, q \in Procs :
        (/\ p # q /\ EnrollReturned(p) /\ EnrollReturned(q)
         /\ q \in proc[p].inFlightAtCall
         /\ calls = 2 /\ writes = 0
         /\ EligibleNotEnrolled(p)) =>
            /\ \/ Ret(p).success /\ ~Ret(q).success
                    /\ Ret(q).code = "ALREADY_ENROLLED"
               \/ Ret(q).success /\ ~Ret(p).success
                    /\ Ret(p).code = "ALREADY_ENROLLED"
            /\ Cardinality(EnrollmentRowsOf(proc[p].userId, proc[p].contentId)) = 1

(***************************************************************************)
(* C11: enrollUser for a pair that already has an enrollment row, be the   *)
(* row active, inactive or expired, returns success = false with code      *)
(* ALREADY_ENROLLED, never SYSTEM_ERROR, and inserts no row.  (Stated for  *)
(* the first call, on an empty cache, with no outside write, and for a     *)
(* request that passes the checks before the enrollment check.)            *)
(***************************************************************************)
C11_ExistingRowGivesAlreadyEnrolled ==
    \A p \in Procs :
        (/\ EnrollReturned(p) /\ calls = 1 /\ writes = 0
         /\ HasUser(p) /\ HasContent(p) /\ EarlierThanEnrollmentPass(p)
         /\ \E e \in EnrollmentRowsOf(proc[p].userId, proc[p].contentId) :
                e.id = <<"e", 0>>) =>
            /\ ~Ret(p).success
            /\ Ret(p).code = "ALREADY_ENROLLED"
            /\ Cardinality(EnrollmentRowsOf(proc[p].userId, proc[p].contentId)) = 1

(***************************************************************************)
(* Observations on the cache: the code the pipeline gives the request of p *)
(* in the current database, and the key of the request.                    *)
(***************************************************************************)
CurrentCode(p) ==
    LET failing == {i \in 1..Len(CheckOrder) : Fails(p, CheckOrder[i])}
    IN IF failing = {} THEN "ACCESS_GRANTED"
       ELSE LET first == CHOOSE i \in failing : \A j \in failing : i <= j
            IN RunCheck(CheckOrder[first], ReqUser(p), ReqContent(p),
                        proc[p].contentType, now).code

KeyOf(p) == AccessKey(proc[p].userId, proc[p].contentId, proc[p].contentType)

CacheHit(p) == ~IsNull(proc[p].cached)

\* the call of p ran none of the store queries
NoStoreQuery(p) ==
    IsNull(proc[p].user) /\ IsNull(proc[p].content) /\ proc[p].step = 0

(***************************************************************************)
(* C12: over a sequence of calls for one key, the first call, on an empty  *)
(* cache, computes the decision and stores it; a second call within the    *)
(* TTL and without invalidation returns the identical decision (code,      *)
(* message, metadata) without querying the store, even if the data changed *)
(* in between; the call after a completed clearUserContentCache recomputes *)
(* from the current state of the store.                                    *)
(***************************************************************************)
C12_CacheCallSequence ==
    \A p \in Procs, q \in Procs :
        /\ (/\ Returned(p) /\ calls = 1 /\ HasUser(p) /\ HasContent(p)) =>
               /\ ~CacheHit(p)
               /\ \E e \in cache :
                      /\ e.key = KeyOf(p)
                      /\ e.value = JSONStringify(Ret(p))
                      /\ e.expires >= Ret(p).timestamp + AccessTTL
                      /\ e.expires <= now + AccessTTL
        /\ (/\ p # q /\ Returned(p) /\ Returned(q) /\ calls = 2
            /\ proc[p].callNo = 1 /\ proc[q].callNo = 2
            /\ p \notin proc[q].inFlightAtCall
            /\ KeyOf(p) = KeyOf(q)
            /\ now < Ret(p).timestamp + AccessTTL) =>
               /\ CacheHit(q) /\ NoStoreQuery(q)
               /\ Ret(q) = Ret(p)
        /\ (/\ p # q /\ Returned(p) /\ proc[p].callNo = 3
            /\ proc[q].op = "clearUserContentCache" /\ proc[q].pc = "done"
            /\ proc[q].callNo = 2
            /\ proc[q].inFlightAtCall = {} /\ q \notin proc[p].inFlightAtCall
            /\ proc[p].userId = proc[q].userId
            /\ proc[p].writesAtCall = writes) =>
               /\ ~CacheHit(p)
               /\ Ret(p).code = CurrentCode(p)

\* the second call is served the level denial of the first although the
\* progress written in between has opened the level gate
C12_Witness ==
    \E p \in Procs, q \in Procs :
        /\ p # q /\ Returned(p) /\ Returned(q) /\ calls = 2
        /\ proc[p].callNo = 1 /\ proc[q].callNo = 2
        /\ p \notin proc[q].inFlightAtCall
        /\ writes = 1 /\ now > Ret(p).timestamp
        /\ CacheHit(q) /\ Ret(q) = Ret(p)
        /\ Ret(q).code = "PREREQUISITE_LEVEL_NOT_COMPLETED"
        /\ Ret(q).metadata.currentCompletion = 0
        /\ CurrentCode(q) = "ACCESS_GRANTED"

(***************************************************************************)
(* Observations on invalidation: a clearUserContentCache call of p that    *)
(* has resolved, and the cache entries keyed by a user.                    *)
(***************************************************************************)
Cleared(p) ==
    /\ proc[p].op = "clearUserContentCache" /\ proc[p].pc = "done"
    /\ Ret(p) = Undefined

EntriesOfUser(userId) ==
    {e \in cache : /\ e.key[1] \in {"content_access", "accessible_content"}
                   /\ e.key[2] = userId}

(***************************************************************************)
(* C13: once clearUserContentCache(u) has completed, with no concurrent    *)
(* cache writer, the cache holds no access decision and no accessible      *)
(* content list keyed by u, whatever their content id, content type or     *)
(* level.                                                                  *)
(***************************************************************************)
C13_ClearRemovesAllEntriesOfUser ==
    \A p \in Procs :
        (Cleared(p) /\ InFlight = {}) => EntriesOfUser(proc[p].userId) = {}

\* decisions for two content types and a list of the user were deleted,
\* and what is left belongs to another user
C13_Witness ==
    \E p \in Procs :
        /\ Cleared(p) /\ InFlight = {}
        /\ \E k1 \in proc[p].keys, k2 \in proc[p].keys : k1[4] # k2[4]
        /\ proc[p].accessibleKeys # {}
        /\ EntriesOfUser(proc[p].userId) = {}

(***************************************************************************)
(* C14: once an invalidation for user u that follows a committed write has *)
(* completed, no call for u that starts afterwards is served a cached      *)
(* value computed from the data before the write, however the evaluations  *)
(* that were in flight at the write interleave.  (The database of          *)
(* SpecCache changes with the write only, so a cached decision whose code  *)
(* differs from the code of the current database predates the write.)      *)
(***************************************************************************)
C14_NoStaleDecisionAfterInvalidation ==
    \A p \in Procs, q \in Procs :
        (/\ p # q
         /\ Cleared(q) /\ writes >= 1 /\ proc[q].writesAtCall = writes
         /\ Returned(p) /\ proc[p].userId = proc[q].userId
         /\ proc[p].callNo > proc[q].callNo
         /\ q \notin proc[p].inFlightAtCall
         /\ CacheHit(p)) =>
            Ret(p).code = CurrentCode(p)

(***************************************************************************)
(* C15: when a cache command fails during checkContentAccess, the call     *)
(* still returns the decision computed from the store: a cache fault alone *)
(* never gives SYSTEM_ERROR.  (In SpecFault the cache is the only service  *)
(* that fails and the database does not change.)                           *)
(***************************************************************************)
C15_CacheFaultFallsBackToStore ==
    \A p \in Procs :
        (Returned(p) /\ HasUser(p) /\ HasContent(p)) =>
            /\ Ret(p).code # "SYSTEM_ERROR"
            /\ Ret(p).code = CurrentCode(p)

(***************************************************************************)
(* Observations on the lookups: an active user record with the id, and     *)
(* content of the given type with the given id, in the tables.             *)
(***************************************************************************)
UserExists(userId) == \E u \in users : u.id = userId /\ u.is_active

ContentExists(contentId, contentType) ==
    \/ contentType = "course" /\ \E c \in courses : c.id = contentId
    \/ contentType = "module" /\ \E m \in modules : m.id = contentId
    \/ contentType = "lesson" /\ \E l \in lessons : l.id = contentId

(***************************************************************************)
(* C16: checkContentAccess returns USER_NOT_FOUND (hasAccess false) when   *)
(* there is no (active) user record for userId, whatever the content is;   *)
(* CONTENT_NOT_FOUND (hasAccess false) when the user exists but no content *)
(* of the given type has the given id, a type outside course, module,      *)
(* lesson included; no later check is evaluated in either case.            *)
(***************************************************************************)
C16_NotFoundDecisions ==
    \A p \in Procs :
        Returned(p) =>
            LET userFound == UserExists(proc[p].userId)
                contentFound == ContentExists(proc[p].contentId,
                                              proc[p].contentType)
            IN /\ ~userFound =>
                      /\ Ret(p).code = "USER_NOT_FOUND" /\ ~Ret(p).hasAccess
                      /\ IsNull(proc[p].content) /\ proc[p].step = 0
               /\ (userFound /\ ~contentFound) =>
                      /\ Ret(p).code = "CONTENT_NOT_FOUND" /\ ~Ret(p).hasAccess
                      /\ proc[p].step = 0 /\ IsNull(proc[p].accessResult)
               /\ (userFound /\ contentFound) =>
                      Ret(p).code \notin {"USER_NOT_FOUND", "CONTENT_NOT_FOUND"}

\* an existing user asks for an existing course id under a type that is
\* not a content type
C16_Witness ==
    \E p \in Procs :
        /\ Returned(p) /\ UserExists(proc[p].userId)
        /\ proc[p].contentType \notin ContentTypes
        /\ \E c \in courses : c.id = proc[p].contentId
        /\ Ret(p).code = "CONTENT_NOT_FOUND"
        /\ proc[p].step = 0

(***************************************************************************)
(* Observations on prerequisites: the elements of a list, the module of a  *)
(* lesson, and a prerequisite id being completed by the user (a completed  *)
(* progress record of the user carries the id as its course or module).    *)
(***************************************************************************)
Elements(seq) == {seq[i] : i \in 1..Len(seq)}

ModuleOfLesson(lessonId) ==
    CHOOSE m \in modules : \E l \in lessons : l.id = lessonId /\ l.module_id = m.id

CompletedByUser(userId, id) ==
    \E up \in user_progress :
        /\ up.user_id = userId /\ up.status = "completed"
        /\ (up.course_id = id \/ up.module_id = Some(id))

(***************************************************************************)
(* C17: a lesson with a prerequisite module that the user has not          *)
(* completed (in progress, say), requested by a user who passes the        *)
(* earlier checks, is denied with PREREQUISITES_NOT_MET and                *)
(* metadata.incompletePrerequisites contains the id of that module.        *)
(***************************************************************************)
C17_LessonPrerequisiteDenied ==
    \A p \in Procs :
        (/\ Returned(p) /\ proc[p].contentType = "lesson"
         /\ HasUser(p) /\ HasContent(p)
         /\ EarlierThanLevelPass(p) /\ ~Fails(p, "level")) =>
            \A pid \in Elements(ModuleOfLesson(proc[p].contentId).prerequisites) :
                ~CompletedByUser(proc[p].userId, pid) =>
                    /\ Ret(p).code = "PREREQUISITES_NOT_MET"
                    /\ pid \in Elements(Ret(p).metadata.incompletePrerequisites)

\* the prerequisite list of the requested course or module, as stored
ListedPrerequisites(p) ==
    IF proc[p].contentType = "course"
    THEN (CHOOSE c \in courses : c.id = proc[p].contentId).prerequisites
    ELSE (CHOOSE m \in modules : m.id = proc[p].contentId).prerequisites

ReachableLessons(courseId) ==
    {l \in lessons : \E m \in modules : m.course_id = courseId /\ l.module_id = m.id}

CompletedLessons(userId, courseId) ==
    {l \in ReachableLessons(courseId) :
        \E up \in user_progress : /\ up.user_id = userId
                                  /\ up.lesson_id = Some(l.id)
                                  /\ up.status = "completed"}

\* value is the number nearest to (num / den) * scale
NearestTo(value, num, den, scale) ==
    LET diff == value * den - num * scale
    IN 2 * (IF diff < 0 THEN -diff ELSE diff) <= den

(***************************************************************************)
(* C19: the completion of a course for a user is the number of completed   *)
(* lessons over the number of lessons reachable through the modules of the *)
(* course, times 100 (to the two decimals of the DECIMAL(5,2) result), and *)
(* 0 for a course without lessons; 3 of 4 lessons give 75, which is the    *)
(* currentCompletion of the level denial when the course is the only       *)
(* published one of its level.                                             *)
(***************************************************************************)
C19_CourseCompletionRatio ==
    /\ \A u \in users, c \in courses :
           LET total == Cardinality(ReachableLessons(c.id))
               completed == Cardinality(CompletedLessons(u.id, c.id))
               value == calculate_course_completion(u.id, c.id)
           IN /\ (total = 0) => (value = 0)
              /\ (total > 0) => NearestTo(value, completed, total, 100 * 100)
              /\ (total = 4 /\ completed = 3) => (value = 75 * 100)
    /\ \A p \in Procs :
           (/\ Returned(p) /\ ~CacheHit(p)
            /\ Ret(p).code = "PREREQUISITE_LEVEL_NOT_COMPLETED") =>
               LET total == Cardinality(ReachableLessons(C(2)))
                   completed == Cardinality(CompletedLessons(proc[p].userId, C(2)))
                   current == Ret(p).metadata.currentCompletion
               IN IF total = 0 THEN current = 0
                  ELSE NearestTo(current, completed, total, 100)

\* scenario C: 3 of the 4 lessons of the only published beginner course
C19_Witness ==
    \E p \in Procs :
        /\ Returned(p) /\ proc[p].contentId = C(1)
        /\ Cardinality(ReachableLessons(C(2))) = 4
        /\ Cardinality(CompletedLessons(proc[p].userId, C(2))) = 3
        /\ calculate_course_completion(proc[p].userId, C(2)) = 7500
        /\ Ret(p).code = "PREREQUISITE_LEVEL_NOT_COMPLETED"
        /\ Ret(p).metadata.currentCompletion = 75

\* the decision of a returned call: granted flag, code, message, metadata
Decision(p) ==
    [hasAccess |-> Ret(p).hasAccess, code |-> Ret(p).code,
     message |-> Ret(p).message, metadata |-> Ret(p).metadata]

(***************************************************************************)
(* C20: two checkContentAccess calls with the same userId, contentId and   *)
(* contentType, with no change to the tables and to the clock-relative     *)
(* status of the dates in between, return identical decisions, be the      *)
(* second served from the cache or recomputed, for every decision code.    *)
(***************************************************************************)
C20_RepeatedCallSameDecision ==
    \A p \in Procs, q \in Procs :
        (/\ Returned(p) /\ Returned(q) /\ KeyOf(p) = KeyOf(q)
         /\ proc[p].callNo < proc[q].callNo
         /\ p \notin proc[q].inFlightAtCall) =>
            Decision(p) = Decision(q)

(***************************************************************************)
(* C21: none of checkContentAccess, getAccessibleContent and enrollUser    *)
(* lets an exception reach its caller, and a step of such a call whose     *)
(* database query rejects ends the call with the fixed SYSTEM_ERROR        *)
(* result.                                                                 *)
(***************************************************************************)
ExposedOps == {"checkContentAccess", "getAccessibleContent", "enrollUser"}

\* the next step of p sends a query to the database
SendsQuery(p) ==
    \/ proc[p].pc \in {"getUser", "accessibleQuery", "enrollExisting",
                       "enrollInsert"}
    \/ proc[p].pc = "getContent" /\ proc[p].contentType \in ContentTypes
    \/ /\ proc[p].pc = "checks"
       /\ CheckQueriesStore(CheckOrder[proc[p].step], Val(proc[p].content),
                            proc[p].contentType)

IsSystemErrorResult(r) ==
    /\ "code" \in DOMAIN r
    /\ r.code = "SYSTEM_ERROR"
    /\ r.message = "System error occurred"

C21_NoExceptionPropagates ==
    [][\A p \in Procs :
         /\ (proc'[p].pc = "done" /\ proc'[p].op \in ExposedOps)
               => ~proc'[p].rejected
         /\ ("db" \in down /\ SendsQuery(p) /\ proc'[p] # proc[p])
               => /\ proc'[p].pc = "done"
                  /\ IsSystemErrorResult(Val(proc'[p].ret))]_vars

(***************************************************************************)
(* C22: every decision returned by checkContentAccess, computed or read    *)
(* from the cache, carries one of the thirteen decision codes, and its     *)
(* hasAccess flag is true exactly when the code is ACCESS_GRANTED; the     *)
(* code-less pass result of a single check is never returned.              *)
(***************************************************************************)
DecisionCodes ==
    {"ACCESS_GRANTED", "CONTENT_NOT_PUBLISHED", "USER_NOT_VERIFIED",
     "SUBSCRIPTION_REQUIRED", "SUBSCRIPTION_EXPIRED",
     "PREREQUISITE_LEVEL_NOT_COMPLETED", "PREREQUISITES_NOT_MET",
     "NOT_ENROLLED", "ENROLLMENT_INACTIVE", "ENROLLMENT_EXPIRED",
     "CONTENT_NOT_FOUND", "USER_NOT_FOUND", "SYSTEM_ERROR"}

C22_ReturnedCodeIsListed ==
    \A p \in Procs :
        Returned(p) =>
            /\ "code" \in DOMAIN Ret(p)
            /\ Ret(p).code \in DecisionCodes
            /\ Ret(p).hasAccess = (Ret(p).code = "ACCESS_GRANTED")
            /\ Ret(p) # PassResult

\* a granted decision served from the cache, after every check passed
C22_Witness ==
    /\ Returned(EvalProc)
    /\ CacheHit(EvalProc)
    /\ Ret(EvalProc).hasAccess
    /\ Ret(EvalProc).code = "ACCESS_GRANTED"
    /\ proc[EvalProc].contentType = "course"

(***************************************************************************)
(* C23: a read of the cache serves a decision only from an entry written   *)
(* at most 300 seconds earlier and a list only from an entry written at    *)
(* most 600 seconds earlier; when the entry of the key is older than that  *)
(* (or there is none) the read is a miss and the call goes on to compute.  *)
(***************************************************************************)
\* the entries of key `key` written at most `ttl` seconds ago
WrittenWithin(key, ttl) ==
    {e \in cache : e.key = key /\ now - e.stored <= ttl}

\* the entries of key `key` written less than `ttl` seconds ago
WrittenLessThan(key, ttl) ==
    {e \in cache : e.key = key /\ now - e.stored < ttl}

C23_NoEntryServedAfterTTL ==
    [][\A p \in Procs :
         /\ (proc[p].pc = "cacheGet" /\ proc'[p] # proc[p]) =>
              IF proc'[p].pc = "getUser"
              THEN WrittenLessThan(KeyOf(p), AccessTTL) = {}
              ELSE \E e \in WrittenWithin(KeyOf(p), AccessTTL) :
                     proc[p].op = "checkContentAccess"
                        => proc'[p].ret = Some(JSONParse(e.value))
         /\ (proc[p].pc = "accessibleGet" /\ proc'[p] # proc[p]) =>
              LET key == AccessibleKey(proc[p].userId, proc[p].level)
              IN IF proc'[p].pc = "accessibleQuery"
                 THEN WrittenLessThan(key, AccessibleTTL) = {}
                 ELSE \E e \in WrittenWithin(key, AccessibleTTL) :
                        proc'[p].ret = Some(JSONParseList(e.value))]_vars

\* a list read from the cache 400 seconds after it was written, while the
\* decision for C(1) has been written again since the start
C23_Witness ==
    /\ proc[EvalProc].pc = "done"
    /\ proc[EvalProc].op = "getAccessibleContent"
    /\ CacheHit(EvalProc)
    /\ \E e \in cache :
         /\ e.key = AccessibleKey(proc[EvalProc].userId, proc[EvalProc].level)
         /\ now - e.stored = 4 * ElapseSeconds
    /\ \E e \in cache :
         /\ e.key = AccessKey(U(1), C(1), "course")
         /\ e.stored > StartTime
         /\ e.stored < now

(***************************************************************************)
(* C24: the access decision on which enrollUser acts is computed from the  *)
(* database during the call; no enrollUser call takes it from a cache      *)
(* entry.                                                                  *)
(***************************************************************************)
C24_EnrollDecisionNotFromCache ==
    \A p \in Procs : proc[p].op = "enrollUser" => ~CacheHit(p)

(***************************************************************************)
(* C25: the prerequisite check passes only if every listed course id has a *)
(* completed course-level progress record of the user (no module, no       *)
(* lesson) and every listed module id a completed module-level record (no  *)
(* lesson); completed records of finer granularity do not count.           *)
(***************************************************************************)
IsCourseId(id) == \E c \in courses : c.id = id
IsModuleId(id) == \E m \in modules : m.id = id

\* the user's record of the granularity of `id` is completed
CompletedAtOwnLevel(userId, id) ==
    \E up \in user_progress :
        /\ up.user_id = userId
        /\ up.status = "completed"
        /\ IsNull(up.lesson_id)
        /\ \/ IsCourseId(id) /\ up.course_id = id /\ IsNull(up.module_id)
           \/ IsModuleId(id) /\ up.module_id = Some(id)

\* the decision of p was reached after the prerequisite check had passed
PassedPrerequisites(p) ==
    /\ Returned(p)
    /\ HasUser(p) /\ HasContent(p)
    /\ proc[p].contentType \in {"course", "module"}
    /\ Ret(p).code \in {"ACCESS_GRANTED"} \cup EnrollmentCodes

C25_PrerequisiteNeedsRecordOfItsLevel ==
    \A p \in Procs :
        PassedPrerequisites(p) =>
            \A id \in Elements(ListedPrerequisites(p)) :
                CompletedAtOwnLevel(proc[p].userId, id)

(***************************************************************************)
(* C26: a request whose listed prerequisites are each completed by the     *)
(* user at the granularity of the prerequisite id (course-level record for *)
(* a course id, module-level record for a module id) is not denied for its *)
(* prerequisites, whatever the type of the requested content; so a module  *)
(* listing a course the user has completed at course level passes.         *)
(***************************************************************************)
C26_GranularityFollowsPrerequisiteId ==
    \A p \in Procs :
        (/\ Returned(p)
         /\ HasUser(p) /\ HasContent(p)
         /\ proc[p].contentType \in {"course", "module"}
         /\ \A id \in Elements(ListedPrerequisites(p)) :
              CompletedAtOwnLevel(proc[p].userId, id)) =>
            Ret(p).code # "PREREQUISITES_NOT_MET"

(***************************************************************************)
(* C27: when the access decision obtained by enrollUser(u, c) is a denial, *)
(* the call returns success false with the code of that decision; and no   *)
(* step of the call up to that return inserts an enrollment row or removes *)
(* a cache entry of any user.                                              *)
(***************************************************************************)
\* the steps of checkContentAccess
GatePcs == {"cacheGet", "getUser", "getContent", "checks", "setex"}

\* the decision that the cache `entries` holds for the request of p: the
\* one read by the call, or the one it has just computed and written
CachedDecision(p, entries) ==
    JSONParse((CHOOSE e \in entries : e.key = KeyOf(p)).value)

C27_DeniedEnrollmentChangesNothing ==
    [][\A p \in Procs :
         (/\ proc[p].op = "enrollUser"
          /\ proc[p].pc \in GatePcs
          /\ proc'[p] # proc[p]) =>
            /\ enrollments' = enrollments
            /\ \A e \in cache :
                 (e.expires > now /\ e.key # KeyOf(p)) => e \in cache'
            /\ (/\ proc'[p].pc \notin GatePcs
                /\ \E e \in cache' : e.key = KeyOf(p) /\ e.expires > now
                /\ ~CachedDecision(p, cache').hasAccess) =>
                  /\ proc'[p].pc = "done"
                  /\ ~Val(proc'[p].ret).success
                  /\ Val(proc'[p].ret).code = CachedDecision(p, cache').code]_vars

\* a denied enrollUser call has returned; the table has no row for the pair
\* and the decision served to an earlier call is still in the cache
C27_Witness ==
    \E p \in Procs :
        /\ EnrollReturned(p)
        /\ ~Ret(p).success
        /\ Ret(p).code = "NOT_ENROLLED"
        /\ CacheHit(p)
        /\ EnrollmentRowsOf(proc[p].userId, proc[p].contentId) = {}
        /\ \E e \in cache : e.key = KeyOf(p) /\ e.expires > now

(***************************************************************************)
(* C28: a getAccessibleContent(u, level) call that misses the cache        *)
(* returns the published courses of the level to which the user is granted *)
(* access, each once, earlier created courses first, and writes that list  *)
(* under the key of (u, level); a call that finds an entry returns the     *)
(* stored list, the empty one included, in one step, without evaluating a  *)
(* course and without writing.                                             *)
(***************************************************************************)
\* every check of the pipeline passes for the existing user and course
StoreGrants(userId, courseId) ==
    /\ UserJoinRows(userId) # {}
    /\ \E c \in courses : c.id = courseId
    /\ LET user == CHOOSE r \in UserJoinRows(userId) : TRUE
           content == Val(CHOOSE r \in getContentDetails(courseId, "course") : TRUE)
       IN \A i \in 1..Len(CheckOrder) :
            RunCheck(CheckOrder[i], user, content, "course", now).hasAccess

GrantedAtLevel(userId, level) ==
    {c \in courses : /\ c.level = level /\ c.is_published
                     /\ StoreGrants(userId, c.id)}

IsListOf(list, rows) ==
    /\ {list[i].id : i \in 1..Len(list)} = {c.id : c \in rows}
    /\ \A i \in 1..Len(list) : \A j \in 1..Len(list) :
         i < j => list[i].id[2] < list[j].id[2]
    /\ \A i \in 1..Len(list) : \E c \in rows :
         /\ list[i].id = c.id
         /\ list[i].isFree = c.is_free
         /\ list[i].requiresSubscription = c.requires_subscription

C28_AccessibleContentList ==
    [][\A p \in Procs :
         LET key == AccessibleKey(proc[p].userId, proc[p].level)
             live == {e \in cache : e.key = key /\ e.expires > now}
         IN /\ (proc[p].pc = "accessibleSetex" /\ proc'[p] # proc[p]) =>
                 /\ proc'[p].pc = "done"
                 /\ IsListOf(Val(proc'[p].ret),
                             GrantedAtLevel(proc[p].userId, proc[p].level))
                 /\ \E e \in cache' :
                      /\ e.key = key /\ e.expires > now
                      /\ JSONParseList(e.value) = Val(proc'[p].ret)
            /\ (proc[p].pc = "accessibleGet" /\ proc'[p] # proc[p]) =>
                 IF live = {}
                 THEN proc'[p].pc = "accessibleQuery"
                 ELSE /\ proc'[p].pc = "done"
                      /\ \E e \in live :
                           Val(proc'[p].ret) = JSONParseList(e.value)
                      /\ cache' = cache]_vars

\* the empty list of the intermediate level served from the cache, which
\* also holds a computed list of two of the three published beginner courses
C28_Witness ==
    /\ proc[EvalProc].pc = "done"
    /\ proc[EvalProc].op = "getAccessibleContent"
    /\ proc[EvalProc].level = "intermediate"
    /\ CacheHit(EvalProc)
    /\ Val(proc[EvalProc].ret) = <<>>
    /\ Cardinality(PublishedAtLevel("beginner")) = 3
    /\ \E e \in cache :
         /\ e.key = AccessibleKey(U(1), "beginner")
         /\ Len(JSONParseList(e.value)) = 2

(***************************************************************************)
(* C29: two checkContentAccess calls for the same key that overlap in      *)
(* time, with no write to the database, return the same code, hasAccess    *)
(* flag and metadata, and every decision the cache then holds for the key  *)
(* has that code.                                                          *)
(***************************************************************************)
\* the call of q was running when the call of p began
Overlap(p, q) == q \in proc[p].inFlightAtCall

C29_ConcurrentCallsAgree ==
    \A p \in Procs : \A q \in Procs \ {p} :
        (/\ Returned(p) /\ Returned(q)
         /\ KeyOf(p) = KeyOf(q)
         /\ Overlap(p, q)) =>
            /\ Ret(p).code = Ret(q).code
            /\ Ret(p).hasAccess = Ret(q).hasAccess
            /\ Ret(p).metadata = Ret(q).metadata
            /\ \A e \in cache :
                 (e.key = KeyOf(p) /\ e.expires > now) =>
                     JSONParse(e.value).code = Ret(p).code

(***************************************************************************)
(* C30: no step of a checkContentAccess or getAccessibleContent call       *)
(* changes a user, subscription, course, module, lesson, progress or       *)
(* enrollment record; a step of enrollUser changes none of the first six   *)
(* tables, and the enrollment table only at its INSERT, by adding one row  *)
(* for the requested user and course while every existing row stays as it  *)
(* was.                                                                    *)
(***************************************************************************)
\* a step of the call of p (writes from outside the service leave proc alone)
StepOf(p) == proc'[p] # proc[p]

C30_ReadOnlyExceptEnrollmentInsert ==
    [][\A p \in Procs :
         StepOf(p) =>
            /\ store' = store
            /\ enrollments' # enrollments =>
                 /\ proc[p].op = "enrollUser"
                 /\ proc[p].pc = "enrollInsert"
                 /\ proc'[p].pc # "enrollInsert"
                 /\ enrollments \subseteq enrollments'
                 /\ Cardinality(enrollments' \ enrollments) = 1
                 /\ \A e \in enrollments' \ enrollments :
                      /\ e.user_id = proc[p].userId
                      /\ e.course_id = proc[p].contentId]_vars

\* enrollUser has inserted its row and returned, after a row was changed
\* from outside
C30_Witness ==
    /\ EnrollReturned(EvalProc)
    /\ Ret(EvalProc).success
    /\ \E e \in enrollments : e.id = <<"e", proc[EvalProc].callNo>>
    /\ writes = 1

(***************************************************************************)
(* C31: every decision in the cache is one produced by the check pipeline  *)
(* (ACCESS_GRANTED or a denial of the published, verified, subscription,   *)
(* level, prerequisite or enrollment check); a call that returns           *)
(* USER_NOT_FOUND, CONTENT_NOT_FOUND or SYSTEM_ERROR was not served from   *)
(* the cache and leaves no entry for its key behind.                       *)
(***************************************************************************)
UncachedCodes == {"USER_NOT_FOUND", "CONTENT_NOT_FOUND", "SYSTEM_ERROR"}

PipelineCodes == DecisionCodes \ UncachedCodes

DecisionEntries == {e \in cache : e.key[1] = "content_access"}

C31_OnlyPipelineDecisionsCached ==
    /\ \A e \in DecisionEntries : JSONParse(e.value).code \in PipelineCodes
    /\ \A p \in Procs :
         (Returned(p) /\ Ret(p).code \in UncachedCodes) =>
            /\ ~CacheHit(p)
            /\ \A e \in DecisionEntries :
                 e.key = KeyOf(p) => JSONParse(e.value).code \in PipelineCodes

\* the second call returns CONTENT_NOT_FOUND; the cache holds the denial of
\* the first call and nothing for the key of the second
C31_Witness ==
    /\ Returned(EvalProc)
    /\ proc[EvalProc].callNo = 2
    /\ Ret(EvalProc).code = "CONTENT_NOT_FOUND"
    /\ \E e \in DecisionEntries : ~JSONParse(e.value).hasAccess
    /\ \A e \in DecisionEntries : e.key # KeyOf(EvalProc)

(***************************************************************************)
(* C32: no step of clearUserContentCache(u) removes or changes a cache     *)
(* entry, access decision or accessible-content list, whose key carries    *)
(* another user than u.                                                    *)
(***************************************************************************)
ClearPcs == {"clearKeys1", "clearDel1", "clearKeys2", "clearDel2"}

C32_ClearKeepsEntriesOfOtherUsers ==
    [][\A p \in Procs :
         (proc[p].pc \in ClearPcs /\ StepOf(p)) =>
            \A e \in cache :
                (e.expires > now /\ e.key[2] # proc[p].userId) => e \in cache']_vars

\* the entries of u were deleted by a completed call; a decision and a list
\* of the other user are still in the cache
C32_Witness ==
    \E p \in Procs :
        /\ Cleared(p)
        /\ proc[p].keys # {}
        /\ \E e \in cache : /\ e.key[1] = "content_access"
                            /\ e.key[2] # proc[p].userId
        /\ \E e \in cache : /\ e.key[1] = "accessible_content"
                            /\ e.key[2] # proc[p].userId

(***************************************************************************)
(* C33: when getAccessibleContent returns a list, computed or read from    *)
(* the cache, each course in it was put there by a decision computed from  *)
(* the database at most 600 seconds earlier, also when the decisions of    *)
(* the build were read from the cache.  (Builds in which no decision was   *)
(* older than the 300 seconds of its own entry when the list was           *)
(* finished.)                                                              *)
(***************************************************************************)
\* every time of `times` lies at most `ttl` seconds before `t`
AllWithin(times, t, ttl) == \A i \in 1..Len(times) : t - times[i] <= ttl

C33_ListDecisionsWithinListTTL ==
    [][\A p \in Procs :
         /\ (/\ proc[p].pc = "accessibleSetex" /\ proc'[p].pc = "done"
             /\ ~proc'[p].rejected
             /\ AllWithin(proc[p].decidedAt, now, AccessTTL)) =>
                AllWithin(proc[p].decidedAt, now, AccessibleTTL)
         /\ (/\ proc[p].pc = "accessibleGet" /\ proc'[p].pc = "done"
             /\ ~proc'[p].rejected) =>
                \A e \in cache :
                    (/\ e.key = AccessibleKey(proc[p].userId, proc[p].level)
                     /\ e.expires > now
                     /\ AllWithin(e.basis, e.stored, AccessTTL)) =>
                        AllWithin(e.basis, now, AccessibleTTL)]_vars

(***************************************************************************)
(* C34: getAccessibleContent stores a list only when every per-course      *)
(* decision of its construction was a decision of the pipeline: when       *)
(* checkContentAccess answered SYSTEM_ERROR for some course of the         *)
(* construction, the list, which omits that course, is not stored.  As a   *)
(* step property: the step of lines 449-452 of a construction that met a   *)
(* SYSTEM_ERROR leaves no readable accessible_content entry under the key  *)
(* of the call.                                                            *)
(***************************************************************************)
C34_FaultedListNotCached ==
    [][\A p \in Procs :
         (/\ proc[p].pc = "accessibleSetex" /\ proc'[p].pc = "done"
          /\ proc[p].buildFaulted) =>
            ~\E e \in cache' :
                /\ e.key = AccessibleKey(proc[p].userId, proc[p].level)
                /\ e.expires > now']_vars

(***************************************************************************)
(* C35: level unlocking is monotone in the order beginner < intermediate   *)
(* < advanced: whenever a user passes the level gate for advanced content, *)
(* the same user in the same state passes the level gate for intermediate  *)
(* content.  As a step property: when the level check of a request for     *)
(* advanced content passes, checkLevelAccess for the same content taken    *)
(* as intermediate passes in the same state.                               *)
(***************************************************************************)
AtLevelCheck(p) ==
    /\ proc[p].pc = "checks"
    /\ CheckOrder[proc[p].step] = "level"

PassesLevelCheck(p) ==
    /\ AtLevelCheck(p)
    /\ proc'[p].pc = "checks"
    /\ proc'[p].step = proc[p].step + 1

C35_AdvancedImpliesIntermediate ==
    [][\A p \in Procs :
         (/\ PassesLevelCheck(p)
          /\ Val(proc[p].content).level = "advanced") =>
            checkLevelAccess(Val(proc[p].user).id,
                             [Val(proc[p].content) EXCEPT !.level = "intermediate"],
                             now).hasAccess]_vars

(***************************************************************************)
(* C36: with the published courses and their lessons fixed and progress    *)
(* statuses only advancing, the level gate is stable: once a recomputed    *)
(* decision for a user and a level has passed the level gate, every later  *)
(* recomputed decision for that user and level passes it too.  The cache   *)
(* keeps the earlier recomputed decision of a request after its expiry:    *)
(* when the level check of a request is evaluated while the cache still    *)
(* holds a decision for the same request that had passed the level gate,   *)
(* the level check passes.                                                 *)
(***************************************************************************)
PassedLevelGate(value) ==
    value.code \in {"PREREQUISITES_NOT_MET", "NOT_ENROLLED",
                    "ENROLLMENT_INACTIVE", "ENROLLMENT_EXPIRED",
                    "ACCESS_GRANTED"}

EarlierDecisions(p) ==
    {JSONParse(e.value) :
        e \in {e \in cache : e.key = AccessKey(proc[p].userId, proc[p].contentId,
                                               proc[p].contentType)}}

C36_LevelGateStable ==
    [][\A p \in Procs :
         (/\ AtLevelCheck(p)
          /\ proc'[p] # proc[p]
          /\ \E value \in EarlierDecisions(p) : PassedLevelGate(value)) =>
            PassesLevelCheck(p)]_vars

\* a second computation for the intermediate course has passed the level
\* check after both progress records were advanced, the first decision,
\* now expired, having passed the level gate
C36_Witness ==
    /\ proc[EvalProc].pc = "checks"
    /\ proc[EvalProc].contentId = C(2)
    /\ proc[EvalProc].step > 1
    /\ CheckOrder[proc[EvalProc].step - 1] = "level"
    /\ writes = MaxAdvances
    /\ \E e \in cache :
         /\ e.key = AccessKey(U(1), C(2), "course")
         /\ e.expires <= now
         /\ PassedLevelGate(JSONParse(e.value))

(***************************************************************************)
(* C37: with no published course at the lower level (no published beginner *)
(* course for intermediate content, no published intermediate course for   *)
(* advanced content) the level gate denies with                            *)
(* PREREQUISITE_LEVEL_NOT_COMPLETED and currentCompletion = 0; it never    *)
(* grants vacuously.  As a step property: the level check of a request     *)
(* whose lower level has no published course ends the pipeline with that   *)
(* result.                                                                 *)
(***************************************************************************)
LowerLevel(level) == IF level = "advanced" THEN "intermediate" ELSE "beginner"

C37_EmptyLowerLevelDenies ==
    [][\A p \in Procs :
         (/\ AtLevelCheck(p)
          /\ proc'[p] # proc[p]
          /\ Val(proc[p].content).level \in {"intermediate", "advanced"}
          /\ PublishedAtLevel(LowerLevel(Val(proc[p].content).level)) = {}) =>
            /\ proc'[p].pc = "setex"
            /\ Val(proc'[p].accessResult).code = "PREREQUISITE_LEVEL_NOT_COMPLETED"
            /\ Val(proc'[p].accessResult).metadata.currentCompletion = 0]_vars

\* the advanced course was denied with completion 0 while the only
\* intermediate course, which the user has completed, is unpublished
C37_Witness ==
    /\ proc[EvalProc].pc = "done"
    /\ proc[EvalProc].contentId = C(1)
    /\ IsNull(proc[EvalProc].cached)
    /\ PublishedAtLevel("intermediate") = {}
    /\ \E up \in user_progress : up.course_id = C(2) /\ up.status = "completed"
    /\ Val(proc[EvalProc].ret).code = "PREREQUISITE_LEVEL_NOT_COMPLETED"
    /\ Val(proc[EvalProc].ret).metadata.currentCompletion = 0

(***************************************************************************)
(* C38: a user record with is_active false is treated as absent:           *)
(* checkContentAccess returns USER_NOT_FOUND for it whatever the content   *)
(* and the verification and subscription state are, and enrollUser for it  *)
(* returns success false with code USER_NOT_FOUND and inserts nothing.     *)
(* As a step property: after every step, a finished call for a deactivated *)
(* user has returned USER_NOT_FOUND, and the step has added no enrollment  *)
(* of a deactivated user.                                                  *)
(***************************************************************************)
InactiveUsers == {u.id : u \in {u \in users : ~u.is_active}}

C38_InactiveUserIsAbsent ==
    [][/\ \A p \in Procs :
            (/\ proc'[p].pc = "done"
             /\ proc'[p].userId \in InactiveUsers) =>
               /\ proc'[p].op = "checkContentAccess" =>
                    /\ ~Val(proc'[p].ret).hasAccess
                    /\ Val(proc'[p].ret).code = "USER_NOT_FOUND"
               /\ proc'[p].op = "enrollUser" =>
                    /\ ~Val(proc'[p].ret).success
                    /\ Val(proc'[p].ret).code = "USER_NOT_FOUND"
       /\ \A e \in enrollments' :
            e.id \notin {x.id : x \in enrollments} =>
               e.user_id \notin InactiveUsers]_vars

\* enrollUser has returned USER_NOT_FOUND for the deactivated user, who is
\* verified and subscribed, on the published free course, after an
\* enrollment of the active user was inserted
C38_Witness ==
    /\ proc[EvalProc].pc = "done"
    /\ proc[EvalProc].op = "enrollUser"
    /\ proc[EvalProc].userId = U(1)
    /\ Val(proc[EvalProc].ret).code = "USER_NOT_FOUND"
    /\ UserRow(U(1), FALSE, TRUE) \in users
    /\ subscriptions # {}
    /\ \E c \in courses : c.id = C(1) /\ c.is_published /\ c.is_free
    /\ \E e \in enrollments : e.user_id = U(2) /\ e.id \notin {<<"e", 0>>}

(***************************************************************************)
(* C39: content that is neither free nor subscription-gated (is_free and   *)
(* requires_subscription both false) passes the subscription check for     *)
(* every subscription state, a user without any subscription included;     *)
(* SUBSCRIPTION_REQUIRED and SUBSCRIPTION_EXPIRED are returned only for    *)
(* content with requires_subscription true.                                *)
(***************************************************************************)
SubscriptionDenials == {"SUBSCRIPTION_REQUIRED", "SUBSCRIPTION_EXPIRED"}

RequestedCourse(p) ==
    CHOOSE c \in courses :
        \/ c.id = proc[p].contentId
        \/ \E m \in modules :
             /\ m.course_id = c.id
             /\ \/ m.id = proc[p].contentId
                \/ \E l \in lessons :
                     l.module_id = m.id /\ l.id = proc[p].contentId

C39_UngatedContentNeedsNoSubscription ==
    \A p \in Procs :
        (proc[p].pc = "done" /\ proc[p].op = "checkContentAccess") =>
           LET c == RequestedCourse(p)
               code == Val(proc[p].ret).code
           IN /\ code \in SubscriptionDenials => c.requires_subscription
              /\ (/\ ~c.is_free /\ ~c.requires_subscription
                  /\ c.is_published
                  /\ \A u \in users : u.is_verified) =>
                    code \in {"ACCESS_GRANTED", "NOT_ENROLLED"}

\* the enrolled user without any subscription was granted the published
\* course that is neither free nor subscription-gated
C39_Witness ==
    /\ proc[EvalProc].pc = "done"
    /\ proc[EvalProc].contentId = C(1)
    /\ subscriptions = {}
    /\ \E c \in courses :
         c.id = C(1) /\ ~c.is_free /\ ~c.requires_subscription
    /\ Val(proc[EvalProc].ret).code = "ACCESS_GRANTED"

====
